---- MODULE Spec2Model ----
(***************************************************************************)
(* Alert ingestion, sensor registry and spatial dispatch of imd_mqtt.       *)
(*                                                                         *)
(* cap_alerts and sensor_status are the two PostgreSQL tables.  Ingestion  *)
(* (fetch_alerts.convert_to_geojson, main.py tagging,                      *)
(* store_to_neondb.store_alerts_to_neondb) writes cap_alerts, the listener *)
(* (sensor_status_listener.on_message) writes sensor_status, and the       *)
(* dispatcher (sensor_alert_dispatcher.dispatch) reads both and publishes. *)
(***************************************************************************)
EXTENDS Integers, Sequences, FiniteSets, TLC

\* ------------------------------------------------------------------ bounds
MaxMsgs == 3
MaxBatches == 2
MaxWrites == 2
MaxClock == 2
MaxPasses == 2

\* ------------------------------------------------------- nullable values
\* SQL NULL / Python None, and a present value.
NULL == <<>>
Some(v) == <<v>>
\* A dictionary key that is not present (dict.get then yields its default).
Missing == "<missing>"
Get(v, default) == IF v = Missing THEN default ELSE v

\* ---------------------------------------------------------------- geometry
\* A GeoJSON polygon is modelled by its bounding rectangle, GeoJSON order
\* (longitude first).  "Invalid" is JSON that PostGIS does not accept.
Polygon(lon1, lat1, lon2, lat2) ==
    [type |-> "Polygon", lon1 |-> lon1, lat1 |-> lat1, lon2 |-> lon2, lat2 |-> lat2]
InvalidGeoJSON == [type |-> "Invalid"]

\* Two overlapping alert areas: P1 covers longitude 0..4, latitude 0..2 and
\* P2 longitude 2..6, latitude 0..2.
P1 == Polygon(0, 0, 4, 2)
P2 == Polygon(2, 0, 6, 2)

\* ST_Point(x, y): x is the longitude, y the latitude.
ST_Point(x, y) == [x |-> x, y |-> y]

\* ST_Contains(geometry, point): the point lies in the interior of the
\* geometry; NULL geometry yields NULL, which WHERE treats as false.
ST_Contains(geometry, point) ==
    /\ geometry # NULL
    /\ geometry[1].lon1 < point.x /\ point.x < geometry[1].lon2
    /\ geometry[1].lat1 < point.y /\ point.y < geometry[1].lat2

\* -------------------------------------------------------------- timestamps
\* An upstream time string: parts is the number of whitespace separated
\* parts, valid says whether parts 1,2,3,5 parse with "%b %d %H:%M:%S %Y".
\* parts = 0 stands for the empty string and for an absent value (both falsy).
TimeStr(parts, valid, t) == [parts |-> parts, valid |-> valid, t |-> t]

parse_timestamp(time_str) ==
    IF time_str.parts = 0 THEN NULL
    ELSE IF time_str.parts >= 5
         THEN IF time_str.parts >= 6 /\ time_str.valid
              THEN Some(time_str.t)
              ELSE NULL
         ELSE NULL

\* ------------------------------------------------------------- categorizer
\* A text is the set of phrases it contains; cap tells that the phrase is
\* written with capital letters.  The empty set is the empty string or None.
\* The Hindi keywords of the warning message are written "hi:<meaning>".
Phrase(w, cap) == [w |-> w, cap |-> cap]

keep_case(text) == text

\* str.lower()
lower(text) == {Phrase(p.w, FALSE) : p \in text}

\* The keywords of categorize_alert that are proper substrings of a phrase.
SubKeywords(w) ==
    CASE w = "rainfall" -> {"rain"}
      [] w = "heavy rain" -> {"rain"}
      [] w = "extremely heavy rain" -> {"heavy rain", "rain"}
      [] w = "thunderstorm" -> {"thunder"}
      [] w = "thunder storm" -> {"thunder"}
      [] w = "cold wave" -> {"cold"}
      [] w = "coldwave" -> {"cold"}
      [] w = "forest fire" -> {"fire"}
      [] w = "pre fire" -> {"fire"}
      [] w = "pre-fire" -> {"fire"}
      [] w = "hi:hailstorm" -> {"hi:hail"}
      [] w = "hi:forest fire" -> {"hi:fire"}
      [] OTHER -> {}

\* keyword in text (Python substring test, case sensitive)
In(keyword, text) ==
    \E p \in text : ~p.cap /\ (keyword = p.w \/ keyword \in SubKeywords(p.w))

AnyIn(keywords, text) == \E k \in keywords : In(k, text)

categorize_alert_unset(disaster_type, warning_message) ==
    IF disaster_type = {} THEN "" ELSE "other"

categorize_alert(disaster_type, warning_message) ==
    IF disaster_type = {} THEN "other"
    ELSE LET disaster_lower == lower(disaster_type)
             message_lower == IF warning_message # {} THEN lower(warning_message) ELSE {}
         IN
         IF In("earthquake", disaster_lower) \/ In("hi:earthquake", message_lower)
           THEN "earthquake"
         ELSE IF In("tsunami", disaster_lower) \/ In("hi:tsunami", message_lower)
           THEN "tsunami"
         ELSE IF In("landslide", disaster_lower) \/ In("land slide", disaster_lower)
                 \/ In("hi:landslide", message_lower)
           THEN "landslide"
         ELSE IF In("avalanche", disaster_lower) \/ In("hi:avalanche", message_lower)
           THEN "avalanche"
         ELSE IF In("cyclone", disaster_lower) \/ In("cyclonic", disaster_lower)
                 \/ In("hi:cyclone", message_lower)
           THEN "weather_cyclone"
         ELSE IF AnyIn({"rainfall", "rain", "flood", "heavy rain", "extremely heavy rain"},
                       disaster_lower)
                 \/ AnyIn({"hi:flood", "hi:rain", "hi:rainfall"}, message_lower)
           THEN "rainfall_floods"
         ELSE IF AnyIn({"thunderstorm", "thunder storm", "lightning", "thunder"}, disaster_lower)
                 \/ AnyIn({"hi:storm", "hi:lightning", "hi:electricity", "hi:thunder"},
                          message_lower)
           THEN "thunderstorm_lightning"
         ELSE IF In("hail", disaster_lower) \/ In("hi:hail", message_lower)
                 \/ In("hi:hailstorm", message_lower)
           THEN "hailstorm"
         ELSE IF In("cloudburst", disaster_lower) \/ In("cloud burst", disaster_lower)
                 \/ In("hi:cloud burst", message_lower)
           THEN "cloud_burst"
         ELSE IF AnyIn({"frost", "cold wave", "coldwave", "cold", "freeze"}, disaster_lower)
                 \/ AnyIn({"hi:cold wave", "hi:frost", "hi:cold"}, message_lower)
           THEN "frost_cold_wave"
         ELSE IF In("drought", disaster_lower) \/ In("hi:drought", message_lower)
           THEN "drought"
         ELSE IF AnyIn({"pre fire", "pre-fire", "fire", "forest fire"}, disaster_lower)
                 \/ AnyIn({"hi:forest fire", "hi:fire", "forest fire"}, message_lower)
           THEN "pre_fire"
         ELSE IF In("pest", disaster_lower) \/ In("hi:pest", message_lower)
           THEN "pest_attack"
         ELSE IF AnyIn({"heat", "hot"}, disaster_lower) \/ In("hi:heat wave", message_lower)
           THEN "heat_wave"
         ELSE IF In("dust", disaster_lower) \/ In("hi:dust", message_lower)
           THEN "dust_storm"
         ELSE "other"

\* ------------------------------------------------------------------ state
VARIABLES
    cap_alerts,       \* table cap_alerts: sequence of rows, in insertion order
    sensor_status,    \* table sensor_status: sequence of rows, in insertion order
    clock,            \* datetime.now() of the listener's host
    lastMsg,          \* the telemetry event on_message handled last
    msgCount,         \* telemetry events handled so far
    lastCall,         \* arguments of the last store_alerts_to_neondb call
    repeat,           \* the last call repeated the arguments of the call before it
    lastUpsert,       \* identifier -> the feature row of its last committed upsert
    result,           \* what the last store_alerts_to_neondb call returned
    batchCount,       \* store_alerts_to_neondb calls so far
    pc,               \* dispatcher: where dispatch() stands
    sensors,          \* dispatcher: the list fetch_all_sensors returned
    si,               \* dispatcher: index of the sensor being handled
    alerts,           \* dispatcher: the list fetch_alerts_containing_point returned
    ai,               \* dispatcher: index of the alert being published
    attempts,         \* dispatcher: the publishes attempted in this pass
    total_published,
    total_no_match,
    total_failed,
    categorized,      \* categorizer: the last call of categorize_alert and its result
    mpc,              \* dispatcher process: where main() stands
    loop,             \* dispatcher process: args.loop
    mqtt_connected,   \* dispatcher process: the bus connection is open
    conn_open,        \* dispatcher process: the store connection is open
    cause,            \* dispatcher process: why main() left its try block or ended
    passes,           \* dispatcher process: passes begun after a sleep
    files,            \* cap_alerts_raw.json and cap_alerts.geojson, once written
    cycle,            \* main.py: what its last run met and did
    previous,         \* dispatcher: the pass before this one, as it ended
    versions          \* every row cap_alerts has held after a commit

storeVars == <<cap_alerts, lastCall, repeat, lastUpsert, result, batchCount, versions>>
registryVars == <<sensor_status, clock, lastMsg, msgCount>>
dispatchVars == <<pc, sensors, si, alerts, ai, attempts,
                  total_published, total_no_match, total_failed, previous>>
mainVars == <<mpc, loop, mqtt_connected, conn_open, cause, passes>>
ingestVars == <<files, cycle>>
vars == <<cap_alerts, lastCall, repeat, lastUpsert, result, batchCount,
          sensor_status, clock, lastMsg, msgCount,
          pc, sensors, si, alerts, ai, attempts,
          total_published, total_no_match, total_failed,
          categorized, mpc, loop, mqtt_connected, conn_open, cause, passes,
          files, cycle, previous, versions>>

\* A call of categorize_alert that has not returned yet.
Call(disaster_type, warning_message) ==
    Some([disaster_type |-> disaster_type,
          warning_message |-> warning_message,
          alert_type |-> Missing])

\* categorize_alert returns.
Categorize ==
    /\ categorized # NULL
    /\ categorized[1].alert_type = Missing
    /\ categorized' = Some([categorized[1] EXCEPT !.alert_type =
                               categorize_alert(categorized[1].disaster_type,
                                                categorized[1].warning_message)])
    /\ UNCHANGED <<storeVars, registryVars, dispatchVars, mainVars, ingestVars>>

\* ------------------------------------------------------- alert normalizer
\* One GeoJSON feature; the properties are flattened into the record.  body
\* stands for the descriptive properties (severity, area_description, ...).
Feature(geometry, identifier, feature_type, alert) ==
    [geometry |-> geometry,
     identifier |-> identifier,
     alert_category |-> Missing,
     feature_type |-> feature_type,
     effective_start_time |-> alert.effective_start_time,
     body |-> alert.body]

RECURSIVE earthquake_features(_, _, _)
earthquake_features(earthquake_polygons, identifier, alert) ==
    IF earthquake_polygons = <<>> THEN <<>>
    ELSE <<Feature(Head(earthquake_polygons).coordinates, identifier,
                   "earthquake_zone", alert)>>
         \o earthquake_features(Tail(earthquake_polygons), identifier, alert)

\* The features convert_to_geojson makes of one alert.
alert_features(alert, polygons_data) ==
    LET identifier == Get(alert.identifier, "")
        no_geometry == <<Feature(NULL, identifier, "alert_no_geometry", alert)>>
    IN  IF alert.earthquake_polygons # <<>>
        THEN earthquake_features(alert.earthquake_polygons, identifier, alert)
        ELSE IF identifier \in DOMAIN polygons_data
                /\ polygons_data[identifier].has_area_json
             THEN LET area_json == polygons_data[identifier].area_json
                  IN  CASE area_json.form = "str" ->
                             <<Feature(Some(area_json.g), identifier, "alert_area", alert)>>
                        [] area_json.form = "obj" ->
                             <<Feature(Some(area_json.g), identifier, "alert_area", alert)>>
                        [] area_json.form = "null" ->
                             <<Feature(NULL, identifier, "alert_area", alert)>>
                        [] OTHER -> no_geometry
             ELSE no_geometry

RECURSIVE convert_to_geojson(_, _)
convert_to_geojson(alerts_data, polygons_data) ==
    IF alerts_data = <<>> THEN <<>>
    ELSE alert_features(Head(alerts_data), polygons_data)
         \o convert_to_geojson(Tail(alerts_data), polygons_data)

\* fetch_alerts.main: the polygon lookups it keeps.  lookup[identifier] is
\* what fetch_alert_polygon returns for that identifier (NULL: None).
fetch_polygons(alerts_data, lookup) ==
    LET wanted == {Get(alerts_data[i].identifier, "") : i \in
                     {j \in 1..Len(alerts_data) : alerts_data[j].type # "earthquake_cap"}}
        kept == {id \in wanted \cap DOMAIN lookup : id # "" /\ lookup[id] # NULL}
    IN  [id \in kept |-> lookup[id][1]]

\* ----------------------------------------------------- seismic normalizer
\* A string of the seismic feed is the sequence of its tokens: words, and in
\* a time string the separators " " and ":" as tokens of their own.
RECURSIVE Join(_)
Join(tokens) == IF tokens = <<>> THEN "" ELSE Head(tokens) \o Join(Tail(tokens))

\* str.replace(' ', '-').replace(':', '-')
sanitize(tokens) ==
    [i \in 1..Len(tokens) |-> IF tokens[i] \in {" ", ":"} THEN "-" ELSE tokens[i]]

\* The time string as parse_timestamp reads it: its whitespace separated parts.
time_str_of(tokens) ==
    IF tokens = <<>> THEN TimeStr(0, FALSE, 0)
    ELSE TimeStr(1 + Cardinality({i \in 1..Len(tokens) : tokens[i] = " "}), FALSE, 0)

\* The words of a message as the text categorize_alert searches.
text_of(tokens) == {Phrase(tokens[i], TRUE) : i \in 1..Len(tokens)}

\* warning_message.split("Location:")[-1].strip() if "Location:" is in the
\* message, else "".
area_description(warning_message) ==
    IF \E i \in 1..Len(warning_message) : warning_message[i] = "Location:"
    THEN LET k == CHOOSE i \in 1..Len(warning_message) :
                     /\ warning_message[i] = "Location:"
                     /\ \A j \in (i+1)..Len(warning_message) :
                           warning_message[j] # "Location:"
         IN  SubSeq(warning_message, k + 1, Len(warning_message))
    ELSE <<>>

\* dict.get of a key of a seismic record: the record holds NULL for a key
\* that is not there and Some(value) for one that is.
GetKey(v, default) == IF v = NULL THEN default ELSE v[1]

\* One record of the seismic feed, made a record of the generic shape.
normalized_alert(eq_alert) ==
    LET effective_start_time == GetKey(eq_alert.effective_start_time, <<>>)
        warning_message == GetKey(eq_alert.warning_message, <<>>)
    IN  [identifier |-> "earthquake-" \o Join(sanitize(effective_start_time)),
         disaster_type |-> {Phrase("earthquake", TRUE)},
         warning_message |-> text_of(warning_message),
         effective_start_time |-> time_str_of(effective_start_time),
         body |-> GetKey(eq_alert.depth, 0),
         type |-> "earthquake_cap",
         earthquake_polygons |-> GetKey(eq_alert.polygons, <<>>),
         area_description |-> area_description(warning_message)]

\* normalize_earthquake_alerts: earthquake_data is the decoded response;
\* its key "alerts" may be missing.
normalize_earthquake_alerts(earthquake_data) ==
    IF earthquake_data.alerts = NULL THEN <<>>
    ELSE [i \in 1..Len(earthquake_data.alerts[1]) |->
             normalized_alert(earthquake_data.alerts[1][i])]

\* fetch_alerts.main: the two files it writes (the raw alerts and the
\* GeoJSON); NULL when the alert feed gave nothing and main returned early.
\* feed and earthquake_data are what the two fetches returned (NULL: None).
fetch_main(feed, earthquake_data, lookup) ==
    IF feed = NULL \/ feed[1] = <<>> THEN NULL
    ELSE LET earthquake_alerts ==
                 IF earthquake_data # NULL
                 THEN normalize_earthquake_alerts(earthquake_data[1]) ELSE <<>>
             alerts_data == feed[1] \o earthquake_alerts
         IN  Some([raw |-> alerts_data,
                   geojson |-> convert_to_geojson(alerts_data,
                                                  fetch_polygons(alerts_data, lookup))])

\* main.py: identifier_to_category, built category by category in the order
\* categorize_alerts_batch first met each category; a later entry overwrites.
alert_type_of(alert) == categorize_alert(alert.disaster_type, alert.warning_message)

identifier_to_category(alerts_data) ==
    LET n == Len(alerts_data)
        first(k) == CHOOSE i \in 1..n :
                       /\ alert_type_of(alerts_data[i]) = alert_type_of(alerts_data[k])
                       /\ \A j \in 1..(i-1) :
                             alert_type_of(alerts_data[j]) # alert_type_of(alerts_data[k])
        later(a, b) == first(a) > first(b) \/ (first(a) = first(b) /\ a > b)
        ids == {Get(alerts_data[i].identifier, "") : i \in 1..n}
        last(id) == CHOOSE k \in 1..n :
                       /\ Get(alerts_data[k].identifier, "") = id
                       /\ \A m \in 1..n :
                             (m # k /\ Get(alerts_data[m].identifier, "") = id) => later(k, m)
    IN  [id \in ids |-> alert_type_of(alerts_data[last(id)])]

\* main.py: every feature is tagged before it is stored.
tag_features(features, alerts_data) ==
    LET table == identifier_to_category(alerts_data)
    IN  [i \in 1..Len(features) |->
           [features[i] EXCEPT !.alert_category =
               IF features[i].identifier \in DOMAIN table
               THEN table[features[i].identifier] ELSE "other"]]

\* ------------------------------------------------------------ alert store
\* The row an INSERT writes for a feature (props.get yields None for a
\* property that is not there).
row_of(feature) ==
    [identifier |-> feature.identifier,
     alert_category |-> IF feature.alert_category = Missing
                        THEN NULL ELSE Some(feature.alert_category),
     feature_type |-> feature.feature_type,
     geometry |-> feature.geometry,
     effective_start_time |-> parse_timestamp(feature.effective_start_time),
     body |-> feature.body]

\* The INSERT of store_alerts_to_neondb names 33 columns, has 32 placeholders
\* in its VALUES list and is executed with a tuple of 33 parameters.
InsertColumns == 33
InsertPlaceholders == 32
InsertParameters == 33

\* cursor.execute(query, parameters) raises before anything is sent when the
\* parameters do not fill the placeholders exactly.
format_raises(placeholders, parameters) == placeholders # parameters

\* The server rejects the statement: ST_GeomFromGeoJSON raises on JSON that
\* is no geometry, and the VALUES list must have one value per column.
execute_fails(feature) ==
    \/ InsertColumns # InsertPlaceholders
    \/ (feature.geometry # NULL /\ feature.geometry[1].type # "Polygon")

HasIdentifier(rows, identifier) ==
    \E i \in 1..Len(rows) : rows[i].identifier = identifier

\* The columns of a row but its key; store_alerts_to_neondb sets them all.
NonKeyColumns == {"alert_category", "feature_type", "geometry", "effective_start_time", "body"}

\* The row left by ON CONFLICT DO UPDATE SET <columns> = EXCLUDED.<columns>.
updated(old, row, columns) ==
    [c \in DOMAIN old |-> IF c \in columns THEN row[c] ELSE old[c]]

upsert_append(rows, row, columns) == Append(rows, row)

\* INSERT ... ON CONFLICT (identifier) DO UPDATE SET <columns>
upsert(rows, row, columns) ==
    IF HasIdentifier(rows, row.identifier)
    THEN [i \in 1..Len(rows) |->
            IF rows[i].identifier = row.identifier
            THEN updated(rows[i], row, columns) ELSE rows[i]]
    ELSE Append(rows, row)

\* The for loop of store_alerts_to_neondb, inside one transaction.  A
\* statement that raises while it is formatted is counted as skipped and
\* nothing is sent; after a statement has failed on the server, PostgreSQL
\* rejects every later statement of the transaction, and the except branch
\* counts each as skipped.
RECURSIVE insert_loop(_, _, _, _, _)
insert_loop(features, rows, aborted, inserted_count, skipped_count) ==
    IF features = <<>>
    THEN [rows |-> rows, aborted |-> aborted,
          inserted |-> inserted_count, skipped |-> skipped_count]
    ELSE IF format_raises(InsertPlaceholders, InsertParameters)
         THEN insert_loop(Tail(features), rows, aborted, inserted_count, skipped_count + 1)
         ELSE IF aborted \/ execute_fails(Head(features))
              THEN insert_loop(Tail(features), rows, TRUE, inserted_count, skipped_count + 1)
              ELSE insert_loop(Tail(features),
                               upsert(rows, row_of(Head(features)), NonKeyColumns),
                               FALSE, inserted_count + 1, skipped_count)

\* The table after store_alerts_to_neondb: setup_database drops the table
\* and commits; conn.commit() of a failed transaction rolls it back.
stored_table(rows, features, setup_schema) ==
    LET start == IF setup_schema THEN <<>> ELSE rows
        run == insert_loop(features, start, FALSE, 0, 0)
    IN  IF run.aborted THEN start ELSE run.rows

\* identifier -> the row of the last upsert of the list that carries it.
LastFeature(upserts, identifier) ==
    LET k == CHOOSE i \in 1..Len(upserts) :
                /\ upserts[i].identifier = identifier
                /\ \A j \in (i+1)..Len(upserts) : upserts[j].identifier # identifier
    IN  upserts[k]

\* The upserts a program has issued since the table was created.
upsert_log(log, upserts, setup_schema) ==
    LET start == IF setup_schema THEN <<>> ELSE log
        ids == {upserts[i].identifier : i \in 1..Len(upserts)}
    IN  [id \in (DOMAIN start) \cup ids |->
            IF id \in ids THEN LastFeature(upserts, id) ELSE start[id]]

RECURSIVE rows_of(_)
rows_of(features) ==
    IF features = <<>> THEN <<>>
    ELSE <<row_of(Head(features))>> \o rows_of(Tail(features))

\* The rows of a table, as a set.
Rows(rows) == {rows[i] : i \in 1..Len(rows)}

store_alerts_to_neondb(geojson_data, setup_schema, db_ok) ==
    /\ batchCount < MaxBatches
    /\ batchCount' = batchCount + 1
    /\ lastCall' = [op |-> "store_alerts_to_neondb", features |-> geojson_data,
                    setup_schema |-> setup_schema, db_ok |-> db_ok]
    /\ repeat' = (db_ok /\ lastCall = lastCall')
    /\ IF ~db_ok
       THEN /\ result' = [success |-> FALSE, inserted |-> 0, skipped |-> 0]
            /\ UNCHANGED <<cap_alerts, lastUpsert>>
       ELSE LET start == IF setup_schema THEN <<>> ELSE cap_alerts
                run == insert_loop(geojson_data, start, FALSE, 0, 0)
            IN  /\ cap_alerts' = stored_table(cap_alerts, geojson_data, setup_schema)
                /\ lastUpsert' = upsert_log(lastUpsert, rows_of(geojson_data), setup_schema)
                /\ result' = [success |-> TRUE, inserted |-> run.inserted,
                              skipped |-> run.skipped]
    /\ versions' = versions \cup Rows(cap_alerts')
    /\ UNCHANGED <<registryVars, dispatchVars, categorized, mainVars>>

\* main.py: fetch, categorize, tag, store (the schema is kept).
MainPipeline(alerts_data, lookup, db_ok) ==
    /\ alerts_data # <<>>
    /\ LET geojson == convert_to_geojson(alerts_data, fetch_polygons(alerts_data, lookup))
       IN  store_alerts_to_neondb(tag_features(geojson, alerts_data), FALSE, db_ok)
    /\ UNCHANGED ingestVars

\* fetch_alerts.py then store_to_neondb.py: the file is stored untagged and
\* the schema is set up again.
StandaloneStore(alerts_data, lookup, db_ok) ==
    /\ alerts_data # <<>>
    /\ LET geojson == convert_to_geojson(alerts_data, fetch_polygons(alerts_data, lookup))
       IN  store_alerts_to_neondb(geojson, TRUE, db_ok)
    /\ UNCHANGED ingestVars

\* test_main_with_rainfall.py: the generated test alerts are stored before
\* they are categorized (untagged), and the schema is kept.
TestPipeline(alerts_data, lookup, db_ok) ==
    /\ alerts_data # <<>>
    /\ LET geojson == convert_to_geojson(alerts_data, fetch_polygons(alerts_data, lookup))
       IN  store_alerts_to_neondb(geojson, FALSE, db_ok)
    /\ UNCHANGED ingestVars

\* main.py, the module script, lines 230-330.  env tells which connection
\* parameters are set.  client.connect fails (int(None) raises, or the
\* broker is not named) and the script exits; fetch_main writes the files
\* or leaves those of an earlier run (met records what the fetches that
\* were made returned); open() of a file that is not there
\* raises; the features are tagged and stored (store_alerts_to_neondb
\* returns success False when DATABASE_URL is not set) and every category is
\* published on its topic.
MainScript(env, feed, earthquake_data, lookup) ==
    LET written == fetch_main(feed, earthquake_data, lookup)
        on_disk == IF written = NULL THEN files ELSE written
        nothing == [env |-> env, feed |-> NULL, earthquake_data |-> NULL,
                    lookup |-> <<>>, written |-> NULL]
        met == IF written = NULL THEN nothing
               ELSE [env |-> env, feed |-> feed, earthquake_data |-> earthquake_data,
                     lookup |-> lookup, written |-> written]
    IN  IF ~env.BROKER
        THEN /\ cycle' = [outcome |-> "exit", met |-> nothing,
                          bus |-> FALSE, fetched |-> FALSE, published |-> {}]
             /\ UNCHANGED <<files, storeVars, registryVars, dispatchVars,
                            categorized, mainVars>>
        ELSE IF on_disk = NULL
        THEN /\ cycle' = [outcome |-> "raised", met |-> met,
                          bus |-> TRUE, fetched |-> TRUE, published |-> {}]
             /\ UNCHANGED <<files, storeVars, registryVars, dispatchVars,
                            categorized, mainVars>>
        ELSE LET alerts_data == on_disk[1].raw
                 full_geojson == tag_features(on_disk[1].geojson, alerts_data)
             IN  /\ files' = Some([raw |-> alerts_data, geojson |-> full_geojson])
                 /\ store_alerts_to_neondb(full_geojson, FALSE, env.DATABASE_URL)
                 /\ cycle' = [outcome |-> "done", met |-> met,
                              bus |-> TRUE, fetched |-> TRUE,
                              published |-> {alert_type_of(alerts_data[i]) :
                                               i \in 1..Len(alerts_data)}]

\* insert_test_alerts.py: the test alerts, as the rows their INSERT writes
\* (a rectangle each; feature_type 'Feature'; no effective_start_time).
TestAlert(identifier, alert_category, polygon) ==
    [identifier |-> identifier,
     alert_category |-> Some(alert_category),
     feature_type |-> "Feature",
     geometry |-> Some(polygon),
     effective_start_time |-> NULL,
     body |-> 2]

TEST_ALERTS ==
    <<TestAlert("TEST-ALERT-1", "rainfall_floods", P2),
      TestAlert("TEST-ALERT-2", "cloud_burst", P1)>>

\* The columns INSERT_SQL sets on conflict.
TestColumns == {"alert_category", "geometry", "body"}

RECURSIVE insert_all(_, _)
insert_all(test_alerts, rows) ==
    IF test_alerts = <<>> THEN rows
    ELSE insert_all(Tail(test_alerts), upsert(rows, Head(test_alerts), TestColumns))

\* insert_test_alerts.insert_test_data
insert_test_data ==
    /\ batchCount < MaxBatches
    /\ batchCount' = batchCount + 1
    /\ lastCall' = [op |-> "insert_test_data", features |-> TEST_ALERTS,
                    setup_schema |-> FALSE, db_ok |-> TRUE]
    /\ repeat' = (lastCall = lastCall')
    /\ cap_alerts' = insert_all(TEST_ALERTS, cap_alerts)
    /\ versions' = versions \cup Rows(cap_alerts')
    /\ lastUpsert' = upsert_log(lastUpsert, TEST_ALERTS, FALSE)
    /\ result' = [success |-> TRUE, inserted |-> Len(TEST_ALERTS), skipped |-> 0]
    /\ UNCHANGED <<registryVars, dispatchVars, categorized, ingestVars, mainVars>>

\* identifier LIKE 'TEST-ALERT-%'
IsTestIdentifier(identifier) == identifier \in {"TEST-ALERT-1", "TEST-ALERT-2"}

\* insert_test_alerts.clean_test_data
clean_test_data ==
    /\ batchCount < MaxBatches
    /\ batchCount' = batchCount + 1
    /\ lastCall' = [op |-> "clean_test_data", features |-> <<>>,
                    setup_schema |-> FALSE, db_ok |-> TRUE]
    /\ repeat' = FALSE
    /\ cap_alerts' = SelectSeq(cap_alerts, LAMBDA row : ~IsTestIdentifier(row.identifier))
    /\ UNCHANGED versions
    /\ lastUpsert' = [id \in {x \in DOMAIN lastUpsert : ~IsTestIdentifier(x)} |-> lastUpsert[id]]
    /\ result' = [success |-> TRUE, inserted |-> 0, skipped |-> 0]
    /\ UNCHANGED <<registryVars, dispatchVars, categorized, ingestVars, mainVars>>

\* -------------------------------------------------------- sensor registry
\* A JSON value of a telemetry payload: k = "none" (key absent or null),
\* "num" (the number v), "str" (a string that reads as the number v),
\* "bad" (a non-empty string that is no number, such as "***").
Absent == [k |-> "none", v |-> 0]
Num(v) == [k |-> "num", v |-> v]
Str(v) == [k |-> "str", v |-> v]
Bad == [k |-> "bad", v |-> 0]

\* Python truth value of a JSON value.
truthy(x) ==
    CASE x.k = "none" -> FALSE
      [] x.k = "num" -> x.v # 0
      [] OTHER -> TRUE

\* a or b or c
py_or(a, b, c) == IF truthy(a) THEN a ELSE IF truthy(b) THEN b ELSE c
\* the same for the identity strings ("" stands for an absent or empty id)
py_or_str(a, b, c) == IF a # "" THEN a ELSE IF b # "" THEN b ELSE c

NoData == [sensor_id |-> "", latitude |-> NULL, longitude |-> NULL]

\* extract_sensor_data: (sensor_id, latitude, longitude); a payload that is
\* no JSON, or a float() that raises, yields (None, None, None).
extract_sensor_data(payload) ==
    IF ~payload.json THEN NoData
    ELSE LET sensor_id == py_or_str(payload.id, payload.ID, payload.sensor_id)
             latitude == py_or(payload.Lat, payload.lat, payload.latitude)
             longitude == py_or(payload.Long, payload.long, payload.longitude)
             float_raises(x) == truthy(x) /\ x.k = "bad"
             value(x) == IF x.k = "none" THEN NULL ELSE Some(x.v)
         IN  IF float_raises(latitude) \/ float_raises(longitude) THEN NoData
             ELSE [sensor_id |-> sensor_id,
                   latitude |-> value(latitude),
                   longitude |-> value(longitude)]

coordinate_any(x) == TRUE

\* Truth value of an extracted coordinate (None and 0.0 are false).
coordinate_truthy(x) == x # NULL /\ x[1] # 0

\* topic.split('/')[0]; a topic is the sequence of its levels.
topic_type(topic) == IF Len(topic) > 1 THEN Head(topic) ELSE topic[1]

SameKey(row, sensor_id, topic, received_at) ==
    /\ row.sensor_id = sensor_id
    /\ row.topic = topic
    /\ row.received_at = received_at

\* INSERT ... ON CONFLICT (sensor_id, topic, received_at) DO UPDATE
insert_sensor(rows, row) ==
    IF \E i \in 1..Len(rows) : SameKey(rows[i], row.sensor_id, row.topic, row.received_at)
    THEN [i \in 1..Len(rows) |->
            IF SameKey(rows[i], row.sensor_id, row.topic, row.received_at)
            THEN row ELSE rows[i]]
    ELSE Append(rows, row)

store_sensor_status(rows, sensor_id, topic, latitude, longitude, now) ==
    insert_sensor(rows, [sensor_id |-> sensor_id,
                         topic |-> topic_type(topic),
                         latitude |-> latitude,
                         longitude |-> longitude,
                         received_at |-> now])

\* on_message: one telemetry event; now is datetime.now() at the insert.
on_message(topic, payload, now) ==
    /\ msgCount < MaxMsgs
    /\ now \in {clock, clock + 1}
    /\ now <= MaxClock
    /\ clock' = now
    /\ msgCount' = msgCount + 1
    /\ lastMsg' = [topic |-> topic, payload |-> payload]
    /\ LET data == extract_sensor_data(payload)
       IN  IF data.sensor_id # "" /\ coordinate_truthy(data.latitude)
              /\ coordinate_truthy(data.longitude)
           THEN sensor_status' = store_sensor_status(sensor_status, data.sensor_id, topic,
                                                     data.latitude, data.longitude, now)
           ELSE UNCHANGED sensor_status
    /\ UNCHANGED <<storeVars, dispatchVars, categorized, ingestVars, mainVars>>

\* -------------------------------------------------------------- dispatcher
\* ORDER BY on text columns: the strings of the model in collation order.
Collation == <<"", "A1", "A2", "TEST-ALERT-1", "TEST-ALERT-2", "all", "earthquake-",
               "earthquake-T1-10-00", "earthquake-T2-10-00", "rainfall",
               "s#", "s1", "s2", "seismic", "test-rainfall-alert-001", "unknown-device">>
Rank(str) == CHOOSE i \in 1..Len(Collation) : Collation[i] = str

TOPIC_TO_ALERT_CATEGORIES ==
    [t \in {"rainfall", "temperature", "wind", "seismic", "soil", "humidity",
            "fire", "agriculture", "all"} |->
       CASE t = "rainfall" -> {"rainfall_floods", "cloud_burst"}
         [] t = "temperature" -> {"frost_cold_wave", "heat_wave"}
         [] t = "wind" -> {"weather_cyclone", "thunderstorm_lightning"}
         [] t = "seismic" -> {"earthquake", "tsunami"}
         [] t = "soil" -> {"landslide", "avalanche"}
         [] t = "humidity" -> {"drought"}
         [] t = "fire" -> {"pre_fire"}
         [] t = "agriculture" -> {"pest_attack"}
         [] OTHER -> {}]

\* ORDER BY sensor_id, topic: a set of <<sensor_id, topic>> keys in order.
KeyBefore(a, b) ==
    \/ Rank(a[1]) < Rank(b[1])
    \/ (a[1] = b[1] /\ Rank(a[2]) < Rank(b[2]))

RECURSIVE SortKeys(_)
SortKeys(S) ==
    IF S = {} THEN <<>>
    ELSE LET m == CHOOSE x \in S : \A y \in S \ {x} : KeyBefore(x, y)
         IN  <<m>> \o SortKeys(S \ {m})

\* ORDER BY identifier: a set of identifiers in order.
RECURSIVE SortIds(_)
SortIds(S) ==
    IF S = {} THEN <<>>
    ELSE LET m == CHOOSE x \in S : \A y \in S \ {x} : Rank(x) < Rank(y)
         IN  <<m>> \o SortIds(S \ {m})

fetch_all_sensors_asc(rows) ==
    LET eligible == {i \in 1..Len(rows) :
                       rows[i].latitude # NULL /\ rows[i].longitude # NULL}
        keys == {<<rows[i].sensor_id, rows[i].topic>> : i \in eligible}
        of(key) == {i \in eligible : rows[i].sensor_id = key[1] /\ rows[i].topic = key[2]}
        oldest(key) == CHOOSE i \in of(key) :
                          \A j \in of(key) : rows[j].received_at >= rows[i].received_at
        ordered == SortKeys(keys)
    IN  [n \in 1..Len(ordered) |->
           LET row == rows[oldest(ordered[n])]
           IN  [sensor_id |-> row.sensor_id,
                topic |-> row.topic,
                latitude |-> row.latitude[1],
                longitude |-> row.longitude[1],
                received_at |-> row.received_at]]

\* The same, leaving out the sensors the pass before already sent something.
fetch_all_sensors_unsent(rows) ==
    LET eligible == {i \in 1..Len(rows) :
                       rows[i].latitude # NULL /\ rows[i].longitude # NULL}
        sent == IF previous = <<>> THEN {} ELSE {pair[1] : pair \in previous[1].pairs}
        keys == {<<rows[i].sensor_id, rows[i].topic>> : i \in eligible} \
                   {<<topic[2], topic[1]>> : topic \in sent}
        of(key) == {i \in eligible : rows[i].sensor_id = key[1] /\ rows[i].topic = key[2]}
        latest(key) == CHOOSE i \in of(key) :
                          \A j \in of(key) : rows[j].received_at <= rows[i].received_at
        ordered == SortKeys(keys)
    IN  [n \in 1..Len(ordered) |->
           LET row == rows[latest(ordered[n])]
           IN  [sensor_id |-> row.sensor_id,
                topic |-> row.topic,
                latitude |-> row.latitude[1],
                longitude |-> row.longitude[1],
                received_at |-> row.received_at]]

\* fetch_all_sensors: SELECT DISTINCT ON (sensor_id, topic) ... WHERE latitude
\* IS NOT NULL AND longitude IS NOT NULL ORDER BY sensor_id, topic,
\* received_at DESC.
fetch_all_sensors(rows) ==
    LET eligible == {i \in 1..Len(rows) :
                       rows[i].latitude # NULL /\ rows[i].longitude # NULL}
        keys == {<<rows[i].sensor_id, rows[i].topic>> : i \in eligible}
        of(key) == {i \in eligible : rows[i].sensor_id = key[1] /\ rows[i].topic = key[2]}
        latest(key) == CHOOSE i \in of(key) :
                          \A j \in of(key) : rows[j].received_at <= rows[i].received_at
        ordered == SortKeys(keys)
    IN  [n \in 1..Len(ordered) |->
           LET row == rows[latest(ordered[n])]
           IN  [sensor_id |-> row.sensor_id,
                topic |-> row.topic,
                latitude |-> row.latitude[1],
                longitude |-> row.longitude[1],
                received_at |-> row.received_at]]

\* effective_start_time DESC puts NULL first.
StartsNoEarlier(a, b) ==
    \/ a.effective_start_time = NULL
    \/ (b.effective_start_time # NULL
        /\ a.effective_start_time[1] >= b.effective_start_time[1])

\* SELECT DISTINCT ON (identifier) ... ORDER BY identifier,
\* effective_start_time DESC, over the rows (indices) the WHERE clause keeps.
distinct_on_identifier(rows, matching) ==
    LET ids == {rows[i].identifier : i \in matching}
        first(id) == CHOOSE i \in matching :
                        /\ rows[i].identifier = id
                        /\ \A j \in matching :
                              rows[j].identifier = id => StartsNoEarlier(rows[i], rows[j])
        ordered == SortIds(ids)
    IN  [n \in 1..Len(ordered) |-> rows[first(ordered[n])]]

\* alert_category = ANY(%s), applied only when the list is truthy.
category_matches(row, alert_categories) ==
    (alert_categories # NULL /\ alert_categories[1] # {})
        => (row.alert_category # NULL /\ row.alert_category[1] \in alert_categories[1])

fetch_alerts_unfiltered(rows, lon, lat, alert_categories) ==
    distinct_on_identifier(rows,
        {i \in 1..Len(rows) :
            /\ rows[i].geometry # NULL
            /\ ST_Contains(rows[i].geometry, ST_Point(lon, lat))})

fetch_alerts_swapped(rows, lon, lat, alert_categories) ==
    distinct_on_identifier(rows,
        {i \in 1..Len(rows) :
            /\ rows[i].geometry # NULL
            /\ category_matches(rows[i], alert_categories)
            /\ ST_Contains(rows[i].geometry, ST_Point(lat, lon))})

fetch_alerts_null_geometry(rows, lon, lat, alert_categories) ==
    distinct_on_identifier(rows,
        {i \in 1..Len(rows) :
            /\ category_matches(rows[i], alert_categories)
            /\ (rows[i].geometry # NULL
                  => ST_Contains(rows[i].geometry, ST_Point(lon, lat)))})

\* fetch_alerts_containing_point: alert_categories is NULL (None) or Some(list).
fetch_alerts_containing_point(rows, lon, lat, alert_categories) ==
    distinct_on_identifier(rows,
        {i \in 1..Len(rows) :
            /\ rows[i].geometry # NULL
            /\ category_matches(rows[i], alert_categories)
            /\ ST_Contains(rows[i].geometry, ST_Point(lon, lat))})

categories_of_union(s_topic) ==
    IF s_topic \in DOMAIN TOPIC_TO_ALERT_CATEGORIES /\ s_topic # "all"
    THEN Some(TOPIC_TO_ALERT_CATEGORIES[s_topic])
    ELSE Some(UNION {TOPIC_TO_ALERT_CATEGORIES[t] : t \in DOMAIN TOPIC_TO_ALERT_CATEGORIES})

\* dispatch, lines 258-266: the categories a sensor topic cares about.
categories_of(s_topic) ==
    IF s_topic = "all" THEN NULL
    ELSE IF s_topic \in DOMAIN TOPIC_TO_ALERT_CATEGORIES
         THEN Some(TOPIC_TO_ALERT_CATEGORIES[s_topic])
         ELSE NULL

\* publish_alert_to_sensor: the topic <sensor_topic>/<sensor_id>.
publish_topic(sensor_topic, sensor_id) == <<sensor_topic, sensor_id>>

\* client.publish raises ValueError for a topic that holds a wildcard.
WildcardIds == {"s#"}
publish_raises(topic) == \E n \in 1..Len(topic) : topic[n] \in WildcardIds

\* dispatch, lines 241-250.
DispatchStart ==
    /\ pc = "idle"
    /\ sensors' = fetch_all_sensors(sensor_status)
    /\ attempts' = <<>>
    /\ total_published' = 0
    /\ total_no_match' = 0
    /\ total_failed' = 0
    /\ si' = 1
    /\ alerts' = <<>>
    /\ ai' = 1
    /\ pc' = IF sensors' = <<>> THEN "returned" ELSE "sensor"
    /\ UNCHANGED previous
    /\ UNCHANGED <<storeVars, registryVars, categorized, ingestVars, mainVars>>

\* dispatch, lines 252-277: the next sensor and its spatial query.
CheckSensor ==
    /\ pc = "sensor"
    /\ si <= Len(sensors)
    /\ LET sensor == sensors[si]
           found == fetch_alerts_containing_point(cap_alerts, sensor.longitude,
                                                  sensor.latitude,
                                                  categories_of(sensor.topic))
       IN  /\ alerts' = found
           /\ ai' = 1
           /\ IF found = <<>>
              THEN /\ total_no_match' = total_no_match + 1
                   /\ si' = si + 1
                   /\ pc' = "sensor"
              ELSE /\ pc' = "publish"
                   /\ UNCHANGED <<total_no_match, si>>
    /\ UNCHANGED <<sensors, attempts, total_published, total_failed, previous>>
    /\ UNCHANGED <<storeVars, registryVars, categorized, ingestVars, mainVars>>

\* publish_alert_to_sensor, lines 216-227: the "alert" object of the message,
\* built from the alert the query returned.
alert_payload(alert) ==
    [identifier |-> alert.identifier,
     alert_category |-> alert.alert_category,
     geometry |-> alert.geometry,
     effective_start_time |-> alert.effective_start_time,
     body |-> alert.body]

\* The same, with a failed publish left out of the counters.
PublishAlert_failure_uncounted(ok) ==
    /\ pc = "publish"
    /\ LET sensor == sensors[si]
           topic == publish_topic(sensor.topic, sensor.sensor_id)
           attempt(outcome) == [topic |-> topic,
                                identifier |-> alerts[ai].identifier,
                                alert |-> alert_payload(alerts[ai]),
                                outcome |-> outcome]
       IN  IF publish_raises(topic)
           THEN /\ ok
                /\ attempts' = Append(attempts, attempt("raised"))
                /\ pc' = "raised"
                /\ UNCHANGED <<ai, si, total_published, total_failed>>
           ELSE /\ attempts' = Append(attempts, attempt(IF ok THEN "ok" ELSE "failed"))
                /\ total_published' = IF ok THEN total_published + 1 ELSE total_published
                /\ total_failed' = total_failed
                /\ IF ai < Len(alerts)
                   THEN /\ ai' = ai + 1
                        /\ UNCHANGED <<si, pc>>
                   ELSE /\ ai' = 1
                        /\ si' = si + 1
                        /\ pc' = "sensor"
    /\ UNCHANGED <<sensors, alerts, total_no_match, previous>>
    /\ UNCHANGED <<storeVars, registryVars, categorized, ingestVars, mainVars>>

\* dispatch, lines 279-290: one publish; ok is result[0] == 0.
PublishAlert(ok) ==
    /\ pc = "publish"
    /\ LET sensor == sensors[si]
           topic == publish_topic(sensor.topic, sensor.sensor_id)
           attempt(outcome) == [topic |-> topic,
                                identifier |-> alerts[ai].identifier,
                                alert |-> alert_payload(alerts[ai]),
                                outcome |-> outcome]
       IN  IF publish_raises(topic)
           THEN /\ ok
                /\ attempts' = Append(attempts, attempt("raised"))
                /\ pc' = "raised"
                /\ UNCHANGED <<ai, si, total_published, total_failed>>
           ELSE /\ attempts' = Append(attempts, attempt(IF ok THEN "ok" ELSE "failed"))
                /\ total_published' = IF ok THEN total_published + 1 ELSE total_published
                /\ total_failed' = IF ok THEN total_failed ELSE total_failed + 1
                /\ IF ai < Len(alerts)
                   THEN /\ ai' = ai + 1
                        /\ UNCHANGED <<si, pc>>
                   ELSE /\ ai' = 1
                        /\ si' = si + 1
                        /\ pc' = "sensor"
    /\ UNCHANGED <<sensors, alerts, total_no_match, previous>>
    /\ UNCHANGED <<storeVars, registryVars, categorized, ingestVars, mainVars>>

\* dispatch, lines 292-298: the summary is printed.
Summary ==
    /\ pc = "sensor"
    /\ si > Len(sensors)
    /\ pc' = "summary"
    /\ UNCHANGED <<sensors, si, alerts, ai, attempts,
                   total_published, total_no_match, total_failed, previous>>
    /\ UNCHANGED <<storeVars, registryVars, categorized, ingestVars, mainVars>>

\* The publishes a pass attempted, as (topic, alert identifier) pairs.
Pairs(tried) == {<<tried[n].topic, tried[n].identifier>> : n \in 1..Len(tried)}

\* A pass that has ended: what it attempted and the tables it ran over.
Completed ==
    Some([pairs |-> Pairs(attempts),
          cap_alerts |-> cap_alerts,
          sensor_status |-> sensor_status])

\* dispatch returns; main sleeps until the next pass (or another run starts).
Return ==
    /\ pc \in {"summary", "returned"}
    /\ pc' = "idle"
    /\ UNCHANGED <<sensors, si, alerts, ai, attempts,
                   total_published, total_no_match, total_failed>>
    /\ previous' = Completed
    /\ UNCHANGED <<storeVars, registryVars, categorized, ingestVars, mainVars>>

\* ------------------------------------------------------ dispatcher process
\* main, lines 316-323: the arguments are parsed and the bus connection is
\* opened (connect raises when the broker cannot be reached).
ConnectBroker(args_loop, ok) ==
    /\ mpc = "start"
    /\ loop' = args_loop
    /\ IF ok
       THEN /\ mqtt_connected' = TRUE
            /\ mpc' = "connect_db"
            /\ UNCHANGED cause
       ELSE /\ mpc' = "exited"
            /\ cause' = "startup"
            /\ UNCHANGED mqtt_connected
    /\ UNCHANGED <<conn_open, passes>>
    /\ UNCHANGED <<storeVars, registryVars, dispatchVars, categorized, ingestVars>>

\* main, lines 326-328: connect_db(), outside the try block.
ConnectDb(ok) ==
    /\ mpc = "connect_db"
    /\ IF ok
       THEN /\ conn_open' = TRUE
            /\ mpc' = "ensure_columns"
            /\ UNCHANGED cause
       ELSE /\ mpc' = "exited"
            /\ cause' = "startup"
            /\ UNCHANGED conn_open
    /\ UNCHANGED <<loop, mqtt_connected, passes>>
    /\ UNCHANGED <<storeVars, registryVars, dispatchVars, categorized, ingestVars>>

\* main, line 329: ensure_columns(conn), outside the try block (its ALTER
\* TABLE raises when cap_alerts does not exist or the store is unreachable).
EnsureColumns(ok) ==
    /\ mpc = "ensure_columns"
    /\ IF ok
       THEN /\ mpc' = "try"
            /\ UNCHANGED cause
       ELSE /\ mpc' = "exited"
            /\ cause' = "startup"
    /\ UNCHANGED <<loop, mqtt_connected, conn_open, passes>>
    /\ UNCHANGED <<storeVars, registryVars, dispatchVars, categorized, ingestVars>>

\* dispatch, lines 241 and 269: a query of the pass raises (psycopg2.Error).
QueryRaises ==
    /\ mpc = "try"
    /\ \/ pc = "idle"
       \/ (pc = "sensor" /\ si <= Len(sensors))
    /\ pc' = "raised"
    /\ UNCHANGED <<sensors, si, alerts, ai, attempts,
                   total_published, total_no_match, total_failed, previous>>
    /\ UNCHANGED <<storeVars, registryVars, categorized, ingestVars, mainVars>>

\* main, lines 333-341: dispatch has returned; in loop mode main sleeps, in
\* single mode it leaves the try block.
DispatchReturns ==
    /\ mpc = "try"
    /\ pc \in {"summary", "returned"}
    /\ pc' = "idle"
    /\ IF loop
       THEN /\ mpc' = "sleep"
            /\ UNCHANGED cause
       ELSE /\ mpc' = "finally"
            /\ cause' = "done"
    /\ UNCHANGED <<sensors, si, alerts, ai, attempts,
                   total_published, total_no_match, total_failed>>
    /\ previous' = Completed
    /\ UNCHANGED <<loop, mqtt_connected, conn_open, passes>>
    /\ UNCHANGED <<storeVars, registryVars, categorized, ingestVars>>

\* main, lines 336-339: time.sleep(args.interval) is over, the next pass.
Sleep ==
    /\ mpc = "sleep"
    /\ passes < MaxPasses
    /\ passes' = passes + 1
    /\ mpc' = "try"
    /\ UNCHANGED <<loop, mqtt_connected, conn_open, cause>>
    /\ UNCHANGED <<storeVars, registryVars, dispatchVars, categorized, ingestVars>>

\* main, lines 332-344: an exception other than KeyboardInterrupt leaves
\* dispatch and the try block; no except clause catches it.
DispatchRaises ==
    /\ mpc = "try"
    /\ pc = "raised"
    /\ mpc' = "finally"
    /\ cause' = "exception"
    /\ UNCHANGED <<loop, mqtt_connected, conn_open, passes>>
    /\ UNCHANGED <<storeVars, registryVars, dispatchVars, categorized, ingestVars>>

\* SIGINT: Python raises KeyboardInterrupt in the main thread at the
\* statement it is executing.  Inside the try block (in dispatch or in the
\* sleep) the except clause at line 342 catches it; before the try block
\* nothing does and the process ends.
KeyboardInterrupt ==
    /\ mpc \in {"connect_db", "ensure_columns", "try", "sleep"}
    /\ cause' = "interrupt"
    /\ mpc' = IF mpc \in {"try", "sleep"} THEN "finally" ELSE "exited"
    /\ UNCHANGED <<loop, mqtt_connected, conn_open, passes>>
    /\ UNCHANGED <<storeVars, registryVars, dispatchVars, categorized, ingestVars>>

\* main, lines 344-348: conn.close(), loop_stop(), disconnect().
Finally ==
    /\ mpc = "finally"
    /\ conn_open' = FALSE
    /\ mqtt_connected' = FALSE
    /\ mpc' = "exited"
    /\ UNCHANGED <<loop, cause, passes>>
    /\ UNCHANGED <<storeVars, registryVars, dispatchVars, categorized, ingestVars>>

\* ------------------------------------------------------------------ inputs
\* Disaster types as the feed writes them.
HeavyRainfall == {Phrase("rainfall", TRUE)}
Fog == {Phrase("fog", TRUE)}
Earthquake == {Phrase("earthquake", TRUE)}

ValidTime == TimeStr(6, TRUE, 1)

RawAlert(identifier, disaster_type) ==
    [identifier |-> identifier,
     disaster_type |-> disaster_type,
     warning_message |-> {},
     effective_start_time |-> ValidTime,
     body |-> 1,
     type |-> "",
     earthquake_polygons |-> <<>>]

\* What fetch_alert_polygon returns: None, or an object with area_json.
AreaJson(form, g) == Some([has_area_json |-> TRUE, area_json |-> [form |-> form, g |-> g]])
NoAreaJson == Some([has_area_json |-> FALSE, area_json |-> [form |-> "null", g |-> P1]])

Batches(raw) == {<<a>> : a \in raw} \cup {<<a, b>> : a \in raw, b \in raw}

\* The alert store on its own.
StoreRawAlerts ==
    {RawAlert("A1", HeavyRainfall), RawAlert("A2", Earthquake), RawAlert(Missing, HeavyRainfall)}
StoreLookups ==
    {[id \in {"A1", "A2"} |-> IF id = "A1" THEN a ELSE b] :
        a \in {NULL, AreaJson("obj", P2), AreaJson("obj", InvalidGeoJSON)},
        b \in {AreaJson("str", P1)}}

\* The rows other writers and earlier versions left in cap_alerts: the tables
\* outlive the programs.  identifier is UNIQUE.
StoredAlert(identifier, alert_category, geometry) ==
    [identifier |-> identifier,
     alert_category |-> alert_category,
     feature_type |-> IF geometry = NULL THEN "alert_no_geometry" ELSE "alert_area",
     geometry |-> geometry,
     effective_start_time |-> Some(1),
     body |-> 1]
\* The same with another effective_start_time.
StoredAlertAt(identifier, alert_category, geometry, start) ==
    [StoredAlert(identifier, alert_category, geometry) EXCEPT
        !.effective_start_time = Some(start)]
StoredTables ==
    {a \o b :
       a \in {<<>>} \cup {<<StoredAlert("A1", c, g)>> :
                            c \in {Some("rainfall_floods"), Some("other")},
                            g \in {Some(P1), NULL}},
       b \in {<<>>, <<StoredAlert("A2", Some("rainfall_floods"), Some(P1))>>,
              <<StoredAlert("A2", NULL, Some(P1))>>}}

\* fetch_alerts_test: a generated test alert ("%Y-%m-%d %H:%M:%S" times) and
\* its generated polygon.
TestRainfallAlerts ==
    <<[RawAlert("test-rainfall-alert-001", {Phrase("rainfall", TRUE), Phrase("flood", TRUE)})
         EXCEPT !.effective_start_time = TimeStr(2, FALSE, 1), !.body = 3]>>
TestPolygons == [id \in {"test-rainfall-alert-001"} |-> AreaJson("obj", P1)]

\* Telemetry.
Payload(id, Lat, Long) ==
    [json |-> TRUE, id |-> id, ID |-> "", sensor_id |-> "",
     Lat |-> Lat, lat |-> Absent, latitude |-> Absent,
     Long |-> Long, long |-> Absent, longitude |-> Absent]
NotJson == [Payload("", Absent, Absent) EXCEPT !.json = FALSE]

Topics == {<<"rainfall", "status">>, <<"all", "status">>, <<"unknown-device", "status">>}

RegistryPayloads ==
    {Payload("s1", Lat, Long) : Lat \in {Num(1), Str(3), Num(0), Absent, Bad},
                                Long \in {Num(3), Str(1), Absent}}
    \cup {Payload("", Num(1), Num(3)), NotJson}
RegistryTopics == {<<"rainfall", "status">>, <<"all", "status">>}

\* The dispatcher with both tables.
DispatchTables ==
    {<<>>,
     <<StoredAlert("A1", Some("rainfall_floods"), Some(P1))>>,
     <<StoredAlert("A1", Some("rainfall_floods"), NULL)>>,
     <<StoredAlert("A1", Some("other"), Some(P1)),
       StoredAlert("A2", Some("rainfall_floods"), Some(P1))>>,
     <<StoredAlert("A1", Some("other"), Some(P1)), StoredAlert("A2", NULL, Some(P1))>>,
     <<StoredAlertAt("A1", Some("rainfall_floods"), Some(P1), 1),
       StoredAlertAt("A2", Some("cloud_burst"), Some(P1), 2)>>}
DispatchBatches == {<<RawAlert("A1", Fog)>>}
DispatchLookups == {[id \in {"A1", "A2"} |-> AreaJson("str", P1)]}
\* Telemetry events: s1 inside P1 and P2 as a rainfall sensor, as a sensor of
\* the class all and as one of an unknown class; s1 outside; a sensor whose
\* id holds the wildcard #.
DispatchEvents ==
    {<<t, Payload("s1", Str(1), Str(3))>> : t \in Topics}
    \cup {<<<<"rainfall", "status">>, Payload("s1", Num(3), Num(1))>>,
          <<<<"rainfall", "status">>, Payload("s#", Num(1), Num(3))>>}

\* The registry a dispatcher process finds: snapshots the listener stored.
Snapshot(sensor_id, topic, latitude, longitude) ==
    [sensor_id |-> sensor_id, topic |-> topic, latitude |-> Some(latitude),
     longitude |-> Some(longitude), received_at |-> 0]
SensorTables ==
    {<<>>,
     <<Snapshot("s1", "rainfall", 1, 3)>>,
     <<Snapshot("s1", "rainfall", 1, 3), Snapshot("s2", "all", 1, 3)>>,
     <<Snapshot("s#", "rainfall", 1, 3), Snapshot("s1", "rainfall", 1, 3)>>}

\* Disaster types and warning messages handed to categorize_alert: no text,
\* one phrase or two, each written in capitals or in small letters.
DisasterWords ==
    {"earthquake", "tsunami", "land slide", "avalanche", "cyclonic", "rainfall",
     "thunder storm", "hail", "cloudburst", "coldwave", "drought", "forest fire",
     "pest", "heat", "dust", "fog"}
MessageWords == {"hi:earthquake", "hi:rain", "hi:hailstorm", "hi:dust", "forest fire", "fog"}
Texts(words) ==
    {{}} \cup {{Phrase(w, cap)} : w \in words, cap \in BOOLEAN}
         \cup {{Phrase(v, TRUE), Phrase(w, FALSE)} : v \in words, w \in words}

\* main.py has not run.
NoCycle == [outcome |-> "none"]

\* The seismic feed.  Time strings "T1 10:00" and "T2 10:00".
T1 == <<"T1", " ", "10", ":", "00">>
T2 == <<"T2", " ", "10", ":", "00">>

\* "Magnitude: 5 ... Lat: <lat> & Long: <lon> ... Location: <place>"
QuakeMessage(lat, lon, place) ==
    <<"Magnitude:", "5", "Lat:", lat, "&", "Long:", lon, "Location:", place>>

EqAlert(effective_start_time, warning_message, polygons) ==
    [effective_start_time |-> effective_start_time,
     warning_message |-> Some(warning_message),
     depth |-> Some(5),
     polygons |-> Some(polygons)]

\* An inline intensity zone.
Zone(polygon) == [coordinates |-> Some(polygon)]

\* Zone 1 covers longitude 0..4 and zone 2 longitude 2..6 (P1 and P2).
Mumbai == EqAlert(Some(T1), QuakeMessage("1", "3", "Mumbai"), <<>>)
MumbaiZones == EqAlert(Some(T1), QuakeMessage("1", "3", "Mumbai"), <<Zone(P1), Zone(P2)>>)
Delhi == EqAlert(Some(T1), QuakeMessage("1", "5", "Delhi"), <<Zone(P2)>>)
Later == EqAlert(Some(T2), <<"Magnitude:", "4">>, <<Zone(P2)>>)
Undated == EqAlert(NULL, QuakeMessage("1", "3", "Mumbai"), <<Zone(P1)>>)
UndatedDelhi == EqAlert(NULL, QuakeMessage("1", "5", "Delhi"), <<Zone(P2)>>)

EarthquakeData(eq_alerts) == Some([alerts |-> Some(eq_alerts)])
SeismicFeeds ==
    {NULL, Some([alerts |-> NULL]),
     EarthquakeData(<<MumbaiZones, Later>>), EarthquakeData(<<Mumbai, Delhi>>),
     EarthquakeData(<<Undated, UndatedDelhi>>)}

\* The alert feed: unavailable, or one rainfall alert.
AlertFeeds == {NULL, Some(<<RawAlert("A1", HeavyRainfall)>>)}

\* The polygon lookup: available, or unavailable for A1.
IngestLookups ==
    {[id \in {"A1"} |-> AreaJson("str", P1)], [id \in {"A1"} |-> NULL]}

\* Which connection parameters the environment sets.
Envs ==
    {[BROKER |-> TRUE, DATABASE_URL |-> TRUE], [BROKER |-> FALSE, DATABASE_URL |-> TRUE],
     [BROKER |-> TRUE, DATABASE_URL |-> FALSE]}

\* The store an ingestion run finds.
IngestTables ==
    {<<>>,
     <<StoredAlert("A1", Some("rainfall_floods"), Some(P1))>>,
     <<StoredAlert("A1", Some("rainfall_floods"), Some(P1)),
       StoredAlert("earthquake-T1-10-00", Some("earthquake"), Some(P1))>>}

\* ---------------------------------------------------------- specifications
\* A start with one of the given tables of alerts and of sensor snapshots
\* and one of the given calls of the categorizer; no program has run yet.
InitState(alert_tables, sensor_tables, calls) ==
    /\ cap_alerts \in alert_tables
    /\ sensor_status \in sensor_tables
    /\ clock = 0
    /\ lastMsg = [topic |-> <<>>, payload |-> NotJson]
    /\ msgCount = 0
    /\ lastCall = [op |-> "", features |-> <<>>, setup_schema |-> FALSE, db_ok |-> FALSE]
    /\ repeat = FALSE
    /\ lastUpsert = <<>>
    /\ result = [success |-> FALSE, inserted |-> 0, skipped |-> 0]
    /\ batchCount = 0
    /\ pc = "idle"
    /\ sensors = <<>>
    /\ si = 1
    /\ alerts = <<>>
    /\ ai = 1
    /\ attempts = <<>>
    /\ total_published = 0
    /\ total_no_match = 0
    /\ total_failed = 0
    /\ categorized \in calls
    /\ files = NULL
    /\ cycle = NoCycle
    /\ previous = NULL
    /\ versions = Rows(cap_alerts)
    /\ mpc = "start"
    /\ loop = FALSE
    /\ mqtt_connected = FALSE
    /\ conn_open = FALSE
    /\ cause = ""
    /\ passes = 0

InitTables(alert_tables, sensor_tables) == InitState(alert_tables, sensor_tables, {NULL})

\* A start with one of the given tables of alerts and no sensor yet.
InitWith(tables) == InitTables(tables, {<<>>})

Init == InitWith({<<>>})

\* The alert store: ingestion runs and test-data runs, one after another.
NextStore ==
    \/ \E alerts_data \in Batches(StoreRawAlerts), lookup \in StoreLookups, db_ok \in {TRUE} :
          \/ MainPipeline(alerts_data, lookup, db_ok)
          \/ StandaloneStore(alerts_data, lookup, db_ok)
    \/ TestPipeline(TestRainfallAlerts, TestPolygons, TRUE)
    \/ insert_test_data
    \/ clean_test_data

SpecStore == InitWith(StoredTables) /\ [][NextStore]_vars

\* Runs of main.py, one after another, each with what its fetches return.
NextIngest ==
    \E env \in Envs, feed \in AlertFeeds, earthquake_data \in SeismicFeeds,
       lookup \in IngestLookups :
          MainScript(env, feed, earthquake_data, lookup)

SpecIngest == InitWith(IngestTables) /\ [][NextIngest]_vars

\* The sensor registry: telemetry events, one after another.
NextRegistry ==
    \E topic \in RegistryTopics, payload \in RegistryPayloads, now \in 0..MaxClock :
        on_message(topic, payload, now)

SpecRegistry == Init /\ [][NextRegistry]_vars

\* Telemetry whose payload names a field under more than one alias.
AliasPayloads ==
    {[Payload("s1", Lat, Long) EXCEPT !.lat = lat, !.longitude = longitude] :
        Lat \in {Num(1), Num(0), Absent}, lat \in {Str(3), Absent},
        Long \in {Str(3), Absent}, longitude \in {Num(1)}}
    \cup {[Payload(id, Num(1), Num(3)) EXCEPT !.ID = "s2", !.sensor_id = sensor_id] :
            id \in {"", "s1"}, sensor_id \in {"", "s1"}}

NextAliases ==
    \E topic \in RegistryTopics, payload \in AliasPayloads, now \in 0..MaxClock :
        on_message(topic, payload, now)

SpecAliases == Init /\ [][NextAliases]_vars

\* The dispatcher; the tables are written between its passes.
Write ==
    /\ pc = "idle"
    /\ msgCount + batchCount < MaxWrites
    /\ \/ \E alerts_data \in DispatchBatches, lookup \in DispatchLookups :
             MainPipeline(alerts_data, lookup, TRUE)
       \/ insert_test_data
       \/ \E event \in DispatchEvents, now \in 0..MaxClock :
             on_message(event[1], event[2], now)

Next ==
    \/ Write
    \/ DispatchStart
    \/ CheckSensor
    \/ \E ok \in BOOLEAN : PublishAlert(ok)
    \/ Summary
    \/ Return

Spec == InitWith(DispatchTables) /\ [][Next]_vars

\* The dispatcher while the alert store is written: a writer commits at any
\* point of a pass.
ConcurrentWrite ==
    \/ insert_test_data
    \/ \E alerts_data \in DispatchBatches, lookup \in DispatchLookups :
          MainPipeline(alerts_data, lookup, TRUE)

NextConcurrent ==
    \/ ConcurrentWrite
    \/ DispatchStart
    \/ CheckSensor
    \/ \E ok \in BOOLEAN : PublishAlert(ok)
    \/ Summary
    \/ Return

\* The store holds an earlier version of the first test alert (another
\* category, another area), or nothing.
EarlierTestAlert == [TestAlert("TEST-ALERT-1", "cloud_burst", P1) EXCEPT !.body = 1]
ConcurrentTables == {<<>>, <<EarlierTestAlert>>}

SpecConcurrent == InitTables(ConcurrentTables, SensorTables) /\ [][NextConcurrent]_vars

\* The dispatcher process from its start to its end, over the tables it
\* finds; in its try block it runs the passes.
NextMain ==
    \/ \E args_loop \in BOOLEAN, ok \in BOOLEAN : ConnectBroker(args_loop, ok)
    \/ \E ok \in BOOLEAN : ConnectDb(ok)
    \/ \E ok \in BOOLEAN : EnsureColumns(ok)
    \/ (mpc = "try" /\ DispatchStart)
    \/ (mpc = "try" /\ CheckSensor)
    \/ (mpc = "try" /\ \E ok \in BOOLEAN : PublishAlert(ok))
    \/ (mpc = "try" /\ Summary)
    \/ QueryRaises
    \/ DispatchReturns
    \/ Sleep
    \/ DispatchRaises
    \/ KeyboardInterrupt
    \/ Finally

SpecMain == InitTables(DispatchTables, SensorTables) /\ [][NextMain]_vars

\* The categorizer, called with a disaster type and a warning message.
CategorizerCalls ==
    {Call(disaster_type, warning_message) :
        disaster_type \in Texts(DisasterWords), warning_message \in Texts(MessageWords)}

NextCategorizer == Categorize

SpecCategorizer == InitState({<<>>}, {<<>>}, CategorizerCalls) /\ [][NextCategorizer]_vars

\* ------------------------------------------------------------ alert store
\* C3: after any sequence of upserts the alert store holds at most one row
\* per identifier, and the row of an upserted identifier has the category,
\* the geometry and every other field of the most recent upsert carrying
\* that identifier.
UpsertLastWriteWins ==
    /\ \A i, j \in 1..Len(cap_alerts) :
          cap_alerts[i].identifier = cap_alerts[j].identifier => i = j
    /\ \A id \in DOMAIN lastUpsert :
          \E i \in 1..Len(cap_alerts) :
             /\ cap_alerts[i].identifier = id
             /\ cap_alerts[i] = lastUpsert[id]

\* C4: running the same upserts (same identifiers, identical fields) a second
\* time leaves the store as it was after the first time: the same rows with
\* the same field values.
UpsertIdempotent ==
    [][(batchCount' # batchCount /\ repeat') => cap_alerts' = cap_alerts]_vars

\* The test alerts were upserted twice in a row into a table that held
\* another alert: the table has the three rows it had after the first time.
UpsertRepeated ==
    /\ repeat
    /\ lastCall.op = "insert_test_data"
    /\ result.inserted = 2
    /\ Len(cap_alerts) = 3
    /\ cap_alerts[2] = TEST_ALERTS[1]
    /\ cap_alerts[3] = TEST_ALERTS[2]

\* C6: a generic alert record that lacks an identifier creates no row in the
\* alert store (rows of such a record would carry the empty identifier), and
\* the other records of its batch are stored all the same.
MissingIdentifierCreatesNoRow ==
    (/\ lastCall.op = "store_alerts_to_neondb"
     /\ result.success
     /\ \E k \in 1..Len(lastCall.features) : lastCall.features[k].identifier = "")
    => /\ \A i \in 1..Len(cap_alerts) : cap_alerts[i].identifier # ""
       /\ \A k \in 1..Len(lastCall.features) :
             lastCall.features[k].identifier # "" =>
                HasIdentifier(cap_alerts, lastCall.features[k].identifier)

\* ------------------------------------------------- containing-point query
\* The positions the queries are tried at, and what "inside" and "outside"
\* mean for a stored row.
Lons == 0..6
Lats == 0..3
StrictlyInside(row, lon, lat) ==
    /\ row.geometry # NULL
    /\ row.geometry[1].lon1 < lon /\ lon < row.geometry[1].lon2
    /\ row.geometry[1].lat1 < lat /\ lat < row.geometry[1].lat2
StrictlyOutside(row, lon, lat) ==
    \/ row.geometry = NULL
    \/ lon < row.geometry[1].lon1 \/ lon > row.geometry[1].lon2
    \/ lat < row.geometry[1].lat1 \/ lat > row.geometry[1].lat2
Returned(found, row) == \E n \in 1..Len(found) : found[n] = row

\* C5: an alert stored with a polygon geometry is returned by the
\* containing-point query for every point inside that polygon, and the query
\* for a point outside every stored polygon returns the empty sequence.
StoredPolygonRoundTrip ==
    \A lon \in Lons, lat \in Lats :
       LET found == fetch_alerts_containing_point(cap_alerts, lon, lat, NULL)
       IN  /\ \A i \in 1..Len(cap_alerts) :
                StrictlyInside(cap_alerts[i], lon, lat) => Returned(found, cap_alerts[i])
           /\ (\A i \in 1..Len(cap_alerts) : StrictlyOutside(cap_alerts[i], lon, lat))
                 => found = <<>>

\* insert_test_data has stored two alerts with the overlapping polygons P2
\* and P1: the point (3, 1) gets both, (5, 1) the first only, (1, 3) none.
PolygonsStoredAndQueried ==
    /\ lastCall.op = "insert_test_data"
    /\ Len(cap_alerts) = 2
    /\ cap_alerts[1].geometry = Some(P2)
    /\ cap_alerts[2].geometry = Some(P1)
    /\ Len(fetch_alerts_containing_point(cap_alerts, 3, 1, NULL)) = 2
    /\ fetch_alerts_containing_point(cap_alerts, 5, 1, NULL) = <<cap_alerts[1]>>
    /\ fetch_alerts_containing_point(cap_alerts, 1, 3, NULL) = <<>>

\* ------------------------------------------------------------- dispatcher
\* A pass is under way or has just ended: the tables are as the pass saw them.
InPass == pc \in {"sensor", "publish", "summary", "raised"}

NamedClass(sensor) ==
    sensor.topic \in DOMAIN TOPIC_TO_ALERT_CATEGORIES /\ sensor.topic # "all"

\* The identifiers of the stored alerts whose geometry contains the sensor's
\* (longitude, latitude) point; interest is TRUE for the alerts wanted.
Containing(sensor, interest(_)) ==
    {cap_alerts[i].identifier : i \in
        {j \in 1..Len(cap_alerts) :
            /\ StrictlyInside(cap_alerts[j], sensor.longitude, sensor.latitude)
            /\ interest(cap_alerts[j])}}

InInterestList(sensor, row) ==
    /\ row.alert_category # NULL
    /\ row.alert_category[1] \in TOPIC_TO_ALERT_CATEGORIES[sensor.topic]

\* The publishes attempted on <class>/<id> of the sensor, in order.
AttemptsFor(sensor) ==
    SelectSeq(attempts, LAMBDA a : a.topic = <<sensor.topic, sensor.sensor_id>>)

Identifiers(seq) == {seq[n].identifier : n \in 1..Len(seq)}

\* What a pass owes a sensor whose wanted alerts are "wanted": the query
\* result is exactly the wanted alerts, every publish attempted for the
\* sensor is for one of them, and a pass that has run to its summary has
\* attempted each of them exactly once, on <class>/<id>.
Served(n, wanted) ==
    /\ (pc = "publish" /\ n = si) => Identifiers(alerts) = wanted
    /\ Identifiers(AttemptsFor(sensors[n])) \subseteq wanted
    /\ pc = "summary" =>
          /\ Identifiers(AttemptsFor(sensors[n])) = wanted
          /\ Len(AttemptsFor(sensors[n])) = Cardinality(wanted)

\* C1: in a dispatch pass, for every sensor of the sensor list whose class is
\* a key of the interest map other than "all", the publishes attempted are
\* exactly those for the stored alerts whose geometry contains the sensor's
\* point and whose category is in the class's interest list, each on the
\* topic <class>/<id>.
DispatchFiltersByInterest ==
    InPass =>
       \A n \in 1..Len(sensors) :
          NamedClass(sensors[n]) =>
             Served(n, Containing(sensors[n], LAMBDA row : InInterestList(sensors[n], row)))

\* A pass has reached its summary: the rainfall sensor s1 sits inside the
\* areas of a rainfall alert (A2) and of a fog alert (A1), and exactly one
\* publish was attempted, for A2 on rainfall/s1.
RainfallSensorOneMatch ==
    /\ pc = "summary"
    /\ Len(sensors) = 1
    /\ sensors[1].topic = "rainfall"
    /\ Len(cap_alerts) = 2
    /\ \A i \in 1..2 : StrictlyInside(cap_alerts[i], sensors[1].longitude, sensors[1].latitude)
    /\ \E i \in 1..2 : cap_alerts[i].alert_category = Some("other")
    /\ Len(attempts) = 1
    /\ attempts[1].topic = <<"rainfall", "s1">>
    /\ attempts[1].identifier = "A2"

\* C2: for a sensor whose class is "all" or is no key of the interest map,
\* the pass matches every stored alert whose geometry contains the sensor's
\* point, whatever the alert's category.
DispatchWildcardMatchesAll ==
    InPass =>
       \A n \in 1..Len(sensors) :
          ~NamedClass(sensors[n]) => Served(n, Containing(sensors[n], LAMBDA row : TRUE))

\* A pass has reached its summary: the sensor s1 of the class unknown-device
\* sits inside the areas of a fog alert (category other) and of a rainfall
\* alert, and both were published on unknown-device/s1.
UnknownClassMatchesAll ==
    /\ pc = "summary"
    /\ Len(sensors) = 1
    /\ sensors[1].topic = "unknown-device"
    /\ Len(AttemptsFor(sensors[1])) = 2
    /\ \E i \in 1..Len(cap_alerts) : cap_alerts[i].alert_category = Some("other")

\* C7: an alert stored without geometry is never returned by the
\* containing-point query, for any position and any category filter, and no
\* publish is attempted for it.
NoGeometryNeverMatched ==
    /\ \A lon \in Lons, lat \in {1, 3} :
          \A alert_categories \in {NULL, Some({}), Some(TOPIC_TO_ALERT_CATEGORIES["rainfall"])} :
             LET found == fetch_alerts_containing_point(cap_alerts, lon, lat, alert_categories)
             IN  \A n \in 1..Len(found) : found[n].geometry # NULL
    /\ InPass =>
          /\ \A n \in 1..Len(alerts) : alerts[n].geometry # NULL
          /\ \A n \in 1..Len(attempts) :
                \E i \in 1..Len(cap_alerts) :
                   /\ cap_alerts[i].identifier = attempts[n].identifier
                   /\ cap_alerts[i].geometry # NULL

\* A pass has reached its summary with a rainfall alert stored without
\* geometry (its polygon lookup failed) and a rainfall sensor in the list:
\* nothing was published.
NoGeometryAlertSkipped ==
    /\ pc = "summary"
    /\ \E n \in 1..Len(sensors) : sensors[n].topic = "rainfall"
    /\ Len(cap_alerts) = 1
    /\ cap_alerts[1].geometry = NULL
    /\ cap_alerts[1].feature_type = "alert_no_geometry"
    /\ cap_alerts[1].alert_category = Some("rainfall_floods")
    /\ attempts = <<>>
    /\ total_no_match = Len(sensors)


\* -------------------------------------------------------- sensor registry
SameSensor(a, b) == a.sensor_id = b.sensor_id /\ a.topic = b.topic

\* C8: after any sequence of recorded telemetry events the sensor list of a
\* dispatch pass holds at most one snapshot per (sensor_id, class) pair, and
\* it is the snapshot with the greatest received_at of that pair: the sensor
\* is listed at its newest position, never at an older one.
LatestSnapshotPerSensor ==
    LET list == fetch_all_sensors(sensor_status)
    IN  /\ \A m, n \in 1..Len(list) : SameSensor(list[m], list[n]) => m = n
        /\ \A i \in 1..Len(sensor_status) :
              \E n \in 1..Len(list) :
                 /\ SameSensor(list[n], sensor_status[i])
                 /\ list[n].received_at >= sensor_status[i].received_at
                 /\ list[n].received_at = sensor_status[i].received_at =>
                       /\ list[n].latitude = sensor_status[i].latitude[1]
                       /\ list[n].longitude = sensor_status[i].longitude[1]
        /\ \A n \in 1..Len(list) :
              \E i \in 1..Len(sensor_status) :
                 /\ SameSensor(list[n], sensor_status[i])
                 /\ list[n].received_at = sensor_status[i].received_at

\* The rainfall sensor s1 reported (1, 3) and later (3, 1): the registry
\* keeps both snapshots and the sensor list holds the later one only.
SensorListedAtNewestPosition ==
    /\ Len(sensor_status) = 2
    /\ SameSensor(sensor_status[1], sensor_status[2])
    /\ sensor_status[1].received_at < sensor_status[2].received_at
    /\ sensor_status[1].latitude = Some(1)
    /\ sensor_status[2].latitude = Some(3)
    /\ Len(fetch_all_sensors(sensor_status)) = 1
    /\ fetch_all_sensors(sensor_status)[1].latitude = 3
    /\ fetch_all_sensors(sensor_status)[1].longitude = 1

\* The payload names a sensor; it has no latitude or no longitude under any
\* alias; it has a number or a numeric string for both.
NamesSensor(payload) ==
    payload.json /\ (payload.id # "" \/ payload.ID # "" \/ payload.sensor_id # "")
LacksPosition(payload) ==
    /\ payload.json
    /\ \/ \A x \in {payload.Lat, payload.lat, payload.latitude} : x.k = "none"
       \/ \A x \in {payload.Long, payload.long, payload.longitude} : x.k = "none"
NumericPosition(payload) ==
    /\ payload.json
    /\ \A x \in {payload.Lat, payload.lat, payload.latitude,
                 payload.Long, payload.long, payload.longitude} : x.k \in {"none", "num", "str"}
    /\ ~LacksPosition(payload)

\* No snapshot of the registry has a null latitude or longitude, so none can
\* be listed by fetch_all_sensors, which lists snapshots of the registry.
NoNullPosition(rows) ==
    \A i \in 1..Len(rows) : rows[i].latitude # NULL /\ rows[i].longitude # NULL

TelemetryAppendsSnapshot ==
    [][(msgCount' # msgCount /\ NamesSensor(lastMsg'.payload)
          /\ NumericPosition(lastMsg'.payload))
         => /\ Len(sensor_status') = Len(sensor_status) + 1
            /\ SubSeq(sensor_status', 1, Len(sensor_status)) = sensor_status
            /\ sensor_status'[Len(sensor_status')].sensor_id = lastMsg'.payload.id
            /\ sensor_status'[Len(sensor_status')].topic = topic_type(lastMsg'.topic)]_vars

\* ------------------------------------------- containing-point query, filter
\* The identifiers of the stored alerts whose geometry contains the point.
ContainingPoint(lon, lat) ==
    {cap_alerts[i].identifier : i \in
        {j \in 1..Len(cap_alerts) : StrictlyInside(cap_alerts[j], lon, lat)}}

\* C11: the containing-point query called with no category filter (None)
\* returns the alerts of every category that contain the point, and called
\* with an empty category list it returns no alert, for every point and
\* every content of the store.
EmptyFilterMatchesNothing ==
    \A lon \in Lons, lat \in Lats :
       /\ Identifiers(fetch_alerts_containing_point(cap_alerts, lon, lat, NULL))
             = ContainingPoint(lon, lat)
       /\ fetch_alerts_containing_point(cap_alerts, lon, lat, Some({})) = <<>>

\* a does not start before b (alerts without a start time are not compared).
NotOlder(a, b) ==
    \/ a.effective_start_time = NULL
    \/ b.effective_start_time = NULL
    \/ a.effective_start_time[1] >= b.effective_start_time[1]

\* C12: the sequence the containing-point query returns is ordered by
\* effective_start_time, most recent first, and holds each identifier at most
\* once; so the publishes a pass attempts for one sensor go from the newest
\* alert to the oldest and no alert is attempted twice for the sensor.
NewestAlertFirst ==
    /\ \A lon \in Lons, lat \in {1, 3} :
          \A alert_categories \in {NULL, Some(TOPIC_TO_ALERT_CATEGORIES["rainfall"])} :
             LET found == fetch_alerts_containing_point(cap_alerts, lon, lat, alert_categories)
             IN  \A m, n \in 1..Len(found) :
                    /\ m < n => NotOlder(found[m], found[n])
                    /\ found[m].identifier = found[n].identifier => m = n
    /\ InPass =>
          \A k \in 1..Len(sensors) :
             LET tried == AttemptsFor(sensors[k])
                 row(identifier) ==
                    cap_alerts[CHOOSE j \in 1..Len(cap_alerts) :
                                  cap_alerts[j].identifier = identifier]
             IN  \A m, n \in 1..Len(tried) :
                    /\ m < n => NotOlder(row(tried[m].identifier), row(tried[n].identifier))
                    /\ tried[m].identifier = tried[n].identifier => m = n

\* C13: within a dispatch pass a failed publish (an error code returned or an
\* exception raised by the bus client) is recorded as a publish failure of
\* that message only: the failures counted are the failed attempts, and the
\* pass goes on with the remaining alerts and sensors to its summary.
PublishFailureDoesNotAbortPass ==
    InPass =>
       /\ total_failed = Len(SelectSeq(attempts, LAMBDA a : a.outcome # "ok"))
       /\ pc \in {"sensor", "publish", "summary"}

\* ------------------------------------------------- alert store, failures
\* The write of the feature has none of the claim's causes of failure: its
\* geometry is absent or a polygon.
WellFormed(feature) ==
    feature.geometry = NULL \/ feature.geometry[1].type = "Polygon"

\* C14: when the write of one alert of an ingestion batch fails (here: bad
\* geometry), only that alert is skipped: every other alert of the batch has
\* its row once the batch completes, inserted + skipped is the batch size,
\* and inserted counts the alerts that were persisted.
StoreWriteFailureSkipsOne ==
    (/\ lastCall.op = "store_alerts_to_neondb"
     /\ result.success
     /\ \E k \in 1..Len(lastCall.features) : ~WellFormed(lastCall.features[k]))
    => /\ result.inserted + result.skipped = Len(lastCall.features)
       /\ result.inserted =
             Cardinality({k \in 1..Len(lastCall.features) : WellFormed(lastCall.features[k])})
       /\ \A k \in 1..Len(lastCall.features) :
             WellFormed(lastCall.features[k]) =>
                HasIdentifier(cap_alerts, lastCall.features[k].identifier)

\* ------------------------------------------------------ dispatcher process
\* C15: in loop mode the dispatcher ends its loop of passes only on an
\* interrupt signal: a failure inside a pass (a query that raises, a publish
\* that raises) does not end the loop.
LoopEndsOnlyOnInterrupt ==
    (loop /\ mpc \in {"finally", "exited"} /\ cause # "startup") => cause = "interrupt"

\* C16: when the interrupt signal arrives in loop mode while a pass is in
\* flight, the pass is completed before the process exits: no sensor of the
\* list is left unchecked and no match of a checked sensor unpublished.
InterruptCompletesPass ==
    (loop /\ cause = "interrupt") =>
       ~(pc = "publish" \/ (pc = "sensor" /\ si <= Len(sensors)))

\* C17: on every way the dispatcher process ends, each connection it has
\* opened (bus, store) is closed before it exits.
ConnectionsClosedAtExit ==
    mpc = "exited" => (~mqtt_connected /\ ~conn_open)

\* ------------------------------------------------------------ categorizer
\* The sixteen tags of the enumeration.
AlertTags ==
    {"earthquake", "tsunami", "landslide", "avalanche", "weather_cyclone",
     "rainfall_floods", "thunderstorm_lightning", "hailstorm", "cloud_burst",
     "frost_cold_wave", "drought", "pre_fire", "pest_attack", "heat_wave",
     "dust_storm", "other"}

\* C18: for every disaster type and warning message, absent and empty ones
\* included, what categorize_alert returns is one of the sixteen tags.
CategorizeReturnsTag ==
    (categorized # NULL /\ categorized[1].alert_type # Missing)
       => categorized[1].alert_type \in AlertTags

\* categorize_alert was called with no disaster type and no warning message
\* and returned other.
AbsentValuesCategorized ==
    /\ categorized # NULL
    /\ categorized[1].disaster_type = {}
    /\ categorized[1].warning_message = {}
    /\ categorized[1].alert_type = "other"

\* The precedence order of the categories and the keywords of each.
CategoryOrder ==
    <<"earthquake", "tsunami", "landslide", "avalanche", "weather_cyclone",
      "rainfall_floods", "thunderstorm_lightning", "hailstorm", "cloud_burst",
      "frost_cold_wave", "drought", "pre_fire", "pest_attack", "heat_wave", "dust_storm">>

TypeKeywords(category) ==
    CASE category = "earthquake" -> {"earthquake"}
      [] category = "tsunami" -> {"tsunami"}
      [] category = "landslide" -> {"landslide", "land slide"}
      [] category = "avalanche" -> {"avalanche"}
      [] category = "weather_cyclone" -> {"cyclone", "cyclonic"}
      [] category = "rainfall_floods" ->
            {"rainfall", "rain", "flood", "heavy rain", "extremely heavy rain"}
      [] category = "thunderstorm_lightning" ->
            {"thunderstorm", "thunder storm", "lightning", "thunder"}
      [] category = "hailstorm" -> {"hail"}
      [] category = "cloud_burst" -> {"cloudburst", "cloud burst"}
      [] category = "frost_cold_wave" -> {"frost", "cold wave", "coldwave", "cold", "freeze"}
      [] category = "drought" -> {"drought"}
      [] category = "pre_fire" -> {"pre fire", "pre-fire", "fire", "forest fire"}
      [] category = "pest_attack" -> {"pest"}
      [] category = "heat_wave" -> {"heat", "hot"}
      [] category = "dust_storm" -> {"dust"}

MessageKeywords(category) ==
    CASE category = "earthquake" -> {"hi:earthquake"}
      [] category = "tsunami" -> {"hi:tsunami"}
      [] category = "landslide" -> {"hi:landslide"}
      [] category = "avalanche" -> {"hi:avalanche"}
      [] category = "weather_cyclone" -> {"hi:cyclone"}
      [] category = "rainfall_floods" -> {"hi:flood", "hi:rain", "hi:rainfall"}
      [] category = "thunderstorm_lightning" ->
            {"hi:storm", "hi:lightning", "hi:electricity", "hi:thunder"}
      [] category = "hailstorm" -> {"hi:hail", "hi:hailstorm"}
      [] category = "cloud_burst" -> {"hi:cloud burst"}
      [] category = "frost_cold_wave" -> {"hi:cold wave", "hi:frost", "hi:cold"}
      [] category = "drought" -> {"hi:drought"}
      [] category = "pre_fire" -> {"hi:forest fire", "hi:fire", "forest fire"}
      [] category = "pest_attack" -> {"hi:pest"}
      [] category = "heat_wave" -> {"hi:heat wave"}
      [] category = "dust_storm" -> {"hi:dust"}

\* The keyword occurs in the text, in capitals or in small letters.
OccursIgnoringCase(keyword, text) ==
    \E p \in text : keyword = p.w \/ keyword \in SubKeywords(p.w)

KeywordMatches(category, disaster_type, warning_message) ==
    \/ \E k \in TypeKeywords(category) : OccursIgnoringCase(k, disaster_type)
    \/ \E k \in MessageKeywords(category) : OccursIgnoringCase(k, warning_message)

FirstMatch(disaster_type, warning_message) ==
    LET matching == {n \in 1..Len(CategoryOrder) :
                       KeywordMatches(CategoryOrder[n], disaster_type, warning_message)}
    IN  IF disaster_type = {} \/ matching = {} THEN "other"
        ELSE CategoryOrder[CHOOSE n \in matching : \A m \in matching : n <= m]

\* C19: categorize_alert returns other when the disaster type is empty or
\* absent, whatever the warning message holds; otherwise the first category
\* of the precedence order of which a disaster-type keyword or a
\* warning-message keyword occurs, whatever its case, and other if none does.
CategorizeFirstMatchWins ==
    (categorized # NULL /\ categorized[1].alert_type # Missing)
       => categorized[1].alert_type =
             FirstMatch(categorized[1].disaster_type, categorized[1].warning_message)

\* A disaster type that names an earthquake (in capitals) and rainfall was
\* categorized as earthquake.
EarthquakeBeforeRainfall ==
    /\ categorized # NULL
    /\ categorized[1].disaster_type = {Phrase("earthquake", TRUE), Phrase("rainfall", FALSE)}
    /\ categorized[1].warning_message = {}
    /\ categorized[1].alert_type = "earthquake"

\* ------------------------------------------------ alert store, categories
\* C20: every row of the alert store, after any ingestion path, has its
\* category set to a tag of the enumeration (other when none was derived);
\* no stored alert has an absent category.
CategoryAlwaysSet ==
    \A i \in 1..Len(cap_alerts) :
       /\ cap_alerts[i].alert_category # NULL
       /\ cap_alerts[i].alert_category[1] \in AlertTags

\* ------------------------------------------------------ seismic normalizer
\* The word that follows the marker in a message (NULL: no such marker).
MarkerValue(tokens, marker) ==
    IF \E i \in 1..(Len(tokens) - 1) : tokens[i] = marker
    THEN Some(tokens[(CHOOSE i \in 1..(Len(tokens) - 1) : tokens[i] = marker) + 1])
    ELSE NULL

\* The number a word reads as (NULL: it is no number).
NumberRead(word) ==
    CASE word = "1" -> Some(1)
      [] word = "3" -> Some(3)
      [] word = "5" -> Some(5)
      [] OTHER -> NULL

\* A GeoJSON point, longitude first.
Point(lon, lat) == [type |-> "Point", lon |-> lon, lat |-> lat]

\* The last run of main.py fetched both feeds and wrote its files.
SeismicFetched ==
    /\ cycle.outcome = "done"
    /\ cycle.met.written # NULL
    /\ cycle.met.earthquake_data # NULL
    /\ cycle.met.earthquake_data[1].alerts # NULL

\* The records of the seismic feed of the last run, and what became of the
\* i-th: its normalized alert and its features in the GeoJSON file.
SeismicRecords == cycle.met.earthquake_data[1].alerts[1]
NormalizedOf(i) == cycle.met.written[1].raw[Len(cycle.met.feed[1]) + i]
FeaturesOf(identifier) ==
    SelectSeq(files[1].geojson, LAMBDA feature : feature.identifier = identifier)

\* C21: a seismic record normalizes to an alert of category earthquake whose
\* area_description ends in the place named after the Location: marker, and
\* whenever its Lat: and Long: markers parse, to a point geometry at
\* (Long, Lat).
SeismicPointFromMarkers ==
    SeismicFetched =>
       \A i \in 1..Len(SeismicRecords) :
          LET message == GetKey(SeismicRecords[i].warning_message, <<>>)
              lat == MarkerValue(message, "Lat:")
              lon == MarkerValue(message, "Long:")
              place == MarkerValue(message, "Location:")
              alert == NormalizedOf(i)
              made == FeaturesOf(alert.identifier)
          IN  /\ \A k \in 1..Len(made) : made[k].alert_category = "earthquake"
              /\ place # NULL =>
                    /\ alert.area_description # <<>>
                    /\ alert.area_description[Len(alert.area_description)] = place[1]
              /\ (/\ lat # NULL /\ NumberRead(lat[1]) # NULL
                  /\ lon # NULL /\ NumberRead(lon[1]) # NULL)
                    => \E k \in 1..Len(made) :
                          made[k].geometry =
                             Some(Point(NumberRead(lon[1])[1], NumberRead(lat[1])[1]))

\* C22: the identifier of every canonical alert is unique and stable: the
\* alerts a run normalizes from two different records (two seismic events,
\* dated or not, or a seismic event and a generic alert) never carry the
\* same identifier, so the upsert of one never overwrites the other.
IdentifiersUnique ==
    (cycle.outcome = "done" /\ cycle.met.written # NULL) =>
       LET raw == cycle.met.written[1].raw
       IN  \A i, j \in 1..Len(raw) :
              i # j => raw[i].identifier # raw[j].identifier

\* ------------------------------------------------------- ingestion cycle
\* What a run met: the alert feed gave nothing, or a polygon lookup did.
UpstreamUnavailable(run) ==
    /\ run.fetched
    /\ \/ run.met.feed = NULL
       \/ \E id \in DOMAIN run.met.lookup : run.met.lookup[id] = NULL

\* C23: when the alert feed or a polygon lookup is unavailable during an
\* ingestion cycle, the cycle ends without raising and every alert already in
\* the store keeps its stored fields and geometry (and so is still returned
\* for the points it covered).
UnavailableUpstreamIsGraceful ==
    [][(cycle'.outcome # "none" /\ UpstreamUnavailable(cycle'))
         => /\ cycle'.outcome # "raised"
            /\ \A i \in 1..Len(cap_alerts) :
                  \E j \in 1..Len(cap_alerts') : cap_alerts'[j] = cap_alerts[i]]_vars

\* C24: if a required connection parameter (the store connection string or
\* the broker address/port) is missing, the process stops at startup before
\* any work begins: the bus connection is not used, no alert is fetched or
\* stored and no message is published.
MissingParameterStopsAtStartup ==
    (cycle.outcome # "none" /\ ~(cycle.met.env.BROKER /\ cycle.met.env.DATABASE_URL))
       => /\ cycle.outcome = "exit"
          /\ ~cycle.bus
          /\ ~cycle.fetched
          /\ cycle.published = {}

\* ------------------------------------------------- sensor registry, aliases
\* The first of three aliases that the payload holds.
FirstPresent(a, b, c) == IF a.k # "none" THEN a ELSE IF b.k # "none" THEN b ELSE c
FirstPresentId(a, b, c) == IF a # "" THEN a ELSE IF b # "" THEN b ELSE c
\* The floating point number a JSON number or numeric string stands for.
AsFloat(x) == IF x.k = "none" THEN NULL ELSE Some(x.v)

\* C25: for each logical field the aliases are tried in the order
\* id/ID/sensor_id, Lat/lat/latitude, Long/long/longitude and the value of the
\* first alias the payload holds is the one used, even when a later alias is
\* there too; numeric strings are coerced to floating point.
FirstAliasWins ==
    (msgCount > 0 /\ NamesSensor(lastMsg.payload) /\ NumericPosition(lastMsg.payload)) =>
       LET payload == lastMsg.payload
       IN  extract_sensor_data(payload) =
              [sensor_id |-> FirstPresentId(payload.id, payload.ID, payload.sensor_id),
               latitude |-> AsFloat(FirstPresent(payload.Lat, payload.lat, payload.latitude)),
               longitude |-> AsFloat(FirstPresent(payload.Long, payload.long,
                                                  payload.longitude))]

\* ------------------------------------------------- alert store, the schema
\* C26: schema initialization is idempotent: run when the schema already
\* exists it succeeds and leaves every stored alert unchanged (an alert is
\* never deleted by the pipeline); the alerts the same run upserts aside.
SchemaSetupKeepsAlerts ==
    [][(/\ batchCount' # batchCount
        /\ lastCall'.op = "store_alerts_to_neondb"
        /\ lastCall'.setup_schema)
         => /\ result'.success
            /\ \A i \in 1..Len(cap_alerts) :
                  (\A k \in 1..Len(lastCall'.features) :
                      lastCall'.features[k].identifier # cap_alerts[i].identifier)
                    => \E j \in 1..Len(cap_alerts') : cap_alerts'[j] = cap_alerts[i]]_vars

\* -------------------------------------------------- dispatcher, concurrency
\* The values of a stored row that a match event carries.
PayloadOf(row) ==
    [identifier |-> row.identifier,
     alert_category |-> row.alert_category,
     geometry |-> row.geometry,
     effective_start_time |-> row.effective_start_time,
     body |-> row.body]

\* The sensors of the list for which a publish was attempted.
Matched == {n \in 1..Len(sensors) : AttemptsFor(sensors[n]) # <<>>}

\* Every match event of the pass carries the values of one committed version
\* of its alert, and a pass that reaches its summary has handled every sensor
\* of its list.
EventsCarryCommittedVersion ==
    /\ \A n \in 1..Len(attempts) :
          \E row \in versions : attempts[n].alert = PayloadOf(row)
    /\ pc = "summary" =>
          /\ si > Len(sensors)
          /\ total_no_match + Cardinality(Matched) = Len(sensors)

\* C27: when an upsert of an alert is committed while a dispatch pass runs,
\* every match event of the pass carries the values of one committed version
\* of its alert, all from before the upsert or all from after it, never a
\* mixture; and the pass completes for all sensors: it is never left before
\* its summary.
ConcurrentPassCompletes ==
    /\ EventsCarryCommittedVersion
    /\ pc # "raised"

\* A pass ran to its summary while the first test alert was upserted: one
\* sensor was sent the version from before the upsert and the store now
\* holds the version from after it.
UpsertDuringPass ==
    /\ pc = "summary"
    /\ \E n \in 1..Len(attempts) : attempts[n].alert = PayloadOf(EarlierTestAlert)
    /\ \E i \in 1..Len(cap_alerts) : cap_alerts[i] = TEST_ALERTS[1]
    /\ \E n \in 1..Len(attempts) : attempts[n].alert = PayloadOf(TEST_ALERTS[1])

\* --------------------------------------------------- dispatcher, repetition
\* The pass before the current one ended over the tables as they are now.
SameTablesAsBefore ==
    /\ previous # NULL
    /\ previous[1].cap_alerts = cap_alerts
    /\ previous[1].sensor_status = sensor_status

\* A step of a dispatch pass.
DispatchStep ==
    \/ DispatchStart
    \/ CheckSensor
    \/ \E ok \in BOOLEAN : PublishAlert(ok)
    \/ Summary
    \/ Return

\* C28: a dispatch pass writes neither the alert store nor the sensor
\* registry, and a pass that ends over the same tables as the pass before it
\* attempted the same set of (topic, alert identifier) publishes.
PassesRepeat ==
    /\ [](pc \in {"summary", "returned"} /\ SameTablesAsBefore
             => Pairs(attempts) = previous[1].pairs)
    /\ [][DispatchStep => UNCHANGED <<cap_alerts, sensor_status>>]_vars

\* A second pass has ended over unchanged tables and both attempted publishes.
SecondPassOverSameTables ==
    /\ pc = "summary"
    /\ SameTablesAsBefore
    /\ previous[1].pairs # {}
    /\ Pairs(attempts) # {}

\* ------------------------------------------------- seismic zones, dispatched
\* Places a sensor may stand: inside zone 1 only, inside both zones, inside
\* zone 2 only.
SensorPlaces == {<<1, 1>>, <<3, 1>>, <<5, 1>>}

\* C29: after a run has normalized and stored a seismic alert with inline
\* intensity zones, the containing-point query run for a seismic sensor
\* standing inside any of its zones returns that alert.
SensorInAnyZoneMatched ==
    (SeismicFetched /\ result.success /\ lastCall.op = "store_alerts_to_neondb") =>
       \A k \in 1..Len(lastCall.features) :
          LET zone == lastCall.features[k]
          IN  zone.feature_type = "earthquake_zone" =>
                 \A place \in SensorPlaces :
                    ST_Contains(zone.geometry, ST_Point(place[1], place[2])) =>
                       \E n \in 1..Len(fetch_alerts_containing_point(
                                          cap_alerts, place[1], place[2],
                                          categories_of("seismic"))) :
                          fetch_alerts_containing_point(
                             cap_alerts, place[1], place[2],
                             categories_of("seismic"))[n].identifier = zone.identifier

\* ------------------------------------------------------ dispatcher, counters
\* What the containing-point query of the pass returns for the n-th sensor.
QueryOf(n) ==
    fetch_alerts_containing_point(cap_alerts, sensors[n].longitude, sensors[n].latitude,
                                  categories_of(sensors[n].topic))

\* The alerts the queries of the first n sensors return, counted.
RECURSIVE AlertsReturned(_)
AlertsReturned(n) == IF n = 0 THEN 0 ELSE AlertsReturned(n - 1) + Len(QueryOf(n))

\* The sensors of the list whose query returns nothing.
EmptyHanded == {n \in 1..Len(sensors) : QueryOf(n) = <<>>}

\* C30: when a pass over a non-empty sensor list prints its summary, the
\* sensors checked are the sensors counted unmatched plus the sensors with at
\* least one match, published plus failed is the number of alerts the queries
\* of the pass returned, and a sensor whose query returned nothing caused no
\* publish attempt and was counted unmatched once.
CountersConsistent ==
    pc = "summary" =>
       /\ Len(sensors) = total_no_match + Cardinality(Matched)
       /\ total_published + total_failed = AlertsReturned(Len(sensors))
       /\ total_published + total_failed = Len(attempts)
       /\ total_no_match = Cardinality(EmptyHanded)
       /\ \A n \in EmptyHanded : AttemptsFor(sensors[n]) = <<>>

\* A pass has ended with an unmatched sensor, a published alert and a failed
\* publish.
MixedPassSummed ==
    /\ pc = "summary"
    /\ total_no_match > 0
    /\ total_published > 0
    /\ total_failed > 0

====
